---- MODULE Spec2Model ----
(***************************************************************************)
(* Document composition engine of the prestiti bot (src/bot1.py, and the   *)
(* older single-document src/bot.py): numeric parsing and formatting, the  *)
(* payment calculator, the cursor typesetter, the page-decoration hook and *)
(* the three document builds.                                              *)
(*                                                                         *)
(* Lengths are exact integers in units of 1/127000 pt = 1/360000 mm, so    *)
(* that reportlab's mm (72/25.4 pt), points and glyph advances (1/1000 em  *)
(* at an integer font size) are all whole numbers.                         *)
(* A text is a sequence of characters, each a string naming it: "a", " ",  *)
(* and "alpha", "iota", "EUR" for characters outside ASCII.                *)
(***************************************************************************)
EXTENDS Integers, Sequences, FiniteSets, TLC

VARIABLES
    font,       \* which font pair module import registered: "PTMono" | "Courier"
    cText,      \* clip_to_width: the text s
    cBold,      \* clip_to_width: the bold flag
    cMaxW,      \* clip_to_width: max_w
    cOut,       \* clip_to_width(s, max_w, bold), once cPc is past "ready"
    cOut2,      \* clip_to_width of cOut with the same max_w and bold, once "reclipped"
    cPc,        \* "idle" | "ready" | "clipped" | "reclipped"
    fDoc,       \* Flow Renderer: the document being built: "none" | "offer" | "letter"
    fStory,     \* the story handed to doc.build: a sequence of flowable kinds
    fOnFirst,   \* the onFirstPage callback of this build
    fOnLater,   \* the onLaterPages callback of this build
    fIdx,       \* index of the next flowable of the story
    fLeft,      \* height left in the frame of the current page
    fPages,     \* the pages begun so far, each [hook, rects, number]
    fPc,        \* "idle" | "begin" (a page is about to begin) | "flow" | "done"
    dValues,    \* the values record handed to the build function
    dFields,    \* offer, letter: the field texts interpolated into the paragraphs
    dTs,        \* mandate: the Typesetter (cursor and the canvas's drawString calls)
    nText,      \* the text handed to parse_num
    nVal,       \* parse_num(nText): a float, or the exception raised
    nOut,       \* fmt_eur(nVal), once nPc is "shown"
    nPc,        \* "idle" | "text" | "parsed" | "shown"
    qImporto,   \* build_pdf: values["importo"], a float
    qTan,       \* values["tan"], a float
    qDurata,    \* values["durata"], an int
    qRata,      \* rata, or the exception monthly_payment raised
    qInteressi, \* interessi
    qTotale,    \* totale
    qRows,      \* the amounts of the two tables, as fmt_eur printed them
    qPc,        \* "idle" | "values" | "figures" | "rows" | "raised"
    tTs,        \* a Typesetter under a sequence of calls
    tPrev,      \* tTs as the last call found it
    tCall,      \* the last call made on tTs
    tCount,     \* the number of calls made on tTs
    aFs,        \* the image files on disk now
    aDoc,       \* the build under way: "offer" | "letter"
    aPc,        \* where the build stands
    aStory,     \* what the build put in the story for each asset
    aAnswers,   \* per asset, what each look at the disk answered, in order
    aChanges,   \* how often a file appeared or disappeared during the build
    gIw,        \* sig_image: the pixel width ImageReader found
    gIh,        \* the pixel height
    gOut,       \* the width and height given to Image
    gPc,        \* "idle" | "size" | "image"
    pObj,       \* two renders side by side: the objects constructed so far
    pRun,       \* per render: its kind, its work, its position, its document
    wConv,      \* per chat and ConversationHandler: the state of the conversation
    wData,      \* context.user_data of the user
    wSince,     \* the keys written since their wizard was last entered
    wLast,      \* the last update handled: handler, text, outcome, user_data before
    wDoc,       \* the last document sent: the wizard and the values it was built from
    wCount,     \* the number of updates handled
    wEntries    \* the number of them that entered a wizard

clipVars == <<cText, cBold, cMaxW, cOut, cOut2, cPc>>

flowVars == <<fDoc, fStory, fOnFirst, fOnLater, fIdx, fLeft, fPages, fPc>>

docVars == <<dValues, dFields, dTs>>

numVars == <<nText, nVal, nOut, nPc>>

loanVars == <<qImporto, qTan, qDurata, qRata, qInteressi, qTotale, qRows, qPc>>

tsVars == <<tTs, tPrev, tCall, tCount>>

assetVars == <<aFs, aDoc, aPc, aStory, aAnswers, aChanges>>

sigVars == <<gIw, gIh, gOut, gPc>>

pairVars == <<pObj, pRun>>

wizVars == <<wConv, wData, wSince, wLast, wDoc, wCount, wEntries>>

vars == <<font, clipVars, flowVars, docVars, numVars, loanVars, tsVars, assetVars, sigVars, pairVars, wizVars>>

ClipIdle ==
    /\ cText = <<>> /\ cBold = FALSE /\ cMaxW = 0
    /\ cOut = <<>> /\ cOut2 = <<>> /\ cPc = "idle"

FlowIdle ==
    /\ fDoc = "none" /\ fStory = <<>>
    /\ fOnFirst = "_doNothing" /\ fOnLater = "_doNothing"
    /\ fIdx = 1 /\ fLeft = 0 /\ fPages = <<>> /\ fPc = "idle"

DocIdle ==
    /\ dValues = <<>> /\ dFields = <<>>
    /\ dTs = [left |-> 0, x |-> 0, y |-> 0, line_h |-> 0, drawn |-> <<>>]

NoFloat == [k |-> "none", s |-> 0, m |-> <<>>, e |-> 0]

TsIdle == tTs = <<>> /\ tPrev = <<>> /\ tCall = <<>> /\ tCount = 0

AssetIdle ==
    /\ aFs = {} /\ aDoc = "" /\ aPc = "idle" /\ aStory = <<>> /\ aAnswers = <<>>
    /\ aChanges = 0

PairIdle == pObj = <<>> /\ pRun = <<>>

WizIdle ==
    /\ wConv = <<>> /\ wData = <<>> /\ wSince = {} /\ wLast = <<>> /\ wDoc = <<>>
    /\ wCount = 0 /\ wEntries = 0

SigIdle == gIw = 0 /\ gIh = 0 /\ gOut = <<>> /\ gPc = "idle"

NumIdle == nText = <<>> /\ nVal = NoFloat /\ nOut = <<>> /\ nPc = "idle"

LoanIdle ==
    /\ qImporto = NoFloat /\ qTan = NoFloat /\ qDurata = 0
    /\ qRata = NoFloat /\ qInteressi = NoFloat /\ qTotale = NoFloat
    /\ qRows = <<>> /\ qPc = "idle"

----------------------------------------------------------------------------
(* Units *)

pt == 127000
mm == 360000
A4w == 210 * mm
A4h == 297 * mm

----------------------------------------------------------------------------
(* Texts *)

Rep(ch, n) == [i \in 1..n |-> ch]

Prefix(s, n) == SubSeq(s, 1, n)

IsPrefixOf(p, s) == Len(p) <= Len(s) /\ p = Prefix(s, Len(p))

\* F at the value of v, which is worked out once, where it stands.
With(v, F(_)) == CHOOSE r \in {F(x) : x \in {v}} : TRUE

With2(v, w, F(_, _)) == CHOOSE r \in {F(x, y) : x \in {v}, y \in {w}} : TRUE

\* All texts over alphabet A of length at most n.
RECURSIVE TextsUpTo(_, _)
TextsUpTo(A, n) ==
    IF n = 0 THEN {<<>>}
    ELSE LET shorter == TextsUpTo(A, n - 1)
         IN  shorter \cup {Append(t, ch) : t \in {u \in shorter : Len(u) = n - 1}, ch \in A}

----------------------------------------------------------------------------
(* Text metrics: pdfmetrics.stringWidth for the registered font pair.      *)

Fonts == {"PTMono", "Courier"}

font_r == font
font_b == IF font = "PTMono" THEN "PTMono-Bold" ELSE "Courier-Bold"

TsSize == 11

\* Advance of one glyph in 1/1000 em.  Both mono faces advance 600 for every
\* glyph they hold; the built-in Courier faces hold no Greek, and reportlab
\* takes such a character from its substitution font Symbol, whose glyphs
\* are proportional and have no bold variant.
GlyphUnits(fontName, ch) ==
    IF fontName \in {"Courier", "Courier-Bold"} /\ ch = "alpha" THEN 631
    ELSE IF fontName \in {"Courier", "Courier-Bold"} /\ ch = "iota" THEN 329
    ELSE 600

\* The advances of the characters of s added up, character by character:
\* each distinct character chars holds counts as often as it occurs in s.
RECURSIVE SumGlyphs(_, _, _)
SumGlyphs(fontName, s, chars) ==
    IF chars = {} THEN 0
    ELSE LET ch == CHOOSE c \in chars : TRUE
         IN  GlyphUnits(fontName, ch) * Cardinality({i \in DOMAIN s : s[i] = ch})
             + SumGlyphs(fontName, s, chars \ {ch})

SumUnits(fontName, s) == SumGlyphs(fontName, s, {s[i] : i \in DOMAIN s})

\* pdfmetrics.stringWidth(s, fontName, size) = 0.001 * size * sum of advances
stringWidth(s, fontName, size) == SumUnits(fontName, s) * size * (pt \div 1000)

----------------------------------------------------------------------------
(* Typesetter (pure part) *)

\* size = 0 stands for size=None: "size or self.size".
string_w(s, bold, size) ==
    stringWidth(s, IF bold THEN font_b ELSE font_r, IF size = 0 THEN TsSize ELSE size)

\* The loop of clip_to_width appends the characters of s one by one and
\* stops at the first prefix that is wider than max_w: the length of that
\* prefix, or 0 when the loop runs to the end of s.
FirstOverflow(s, max_w, bold) ==
    LET over == {i \in 1..Len(s) : string_w(Prefix(s, i), bold, 0) > max_w}
    IN  IF over = {} THEN 0 ELSE CHOOSE i \in over : \A j \in over : i <= j

\* Mutant: the overflowing character is not popped before the break.
clip_to_width_nopop(s, max_w, bold) ==
    IF string_w(s, bold, 0) <= max_w THEN s
    ELSE LET k == FirstOverflow(s, max_w, bold)
         IN  IF k = 0 THEN s ELSE Prefix(s, k)

\* Mutant: out.pop(0) drops the first character instead of the last.
clip_to_width_popfront(s, max_w, bold) ==
    IF string_w(s, bold, 0) <= max_w THEN s
    ELSE LET k == FirstOverflow(s, max_w, bold)
         IN  IF k = 0 THEN s ELSE Tail(Prefix(s, k))

\* Mutant: the loop stops at a prefix that fits exactly (>= for >).
clip_to_width_strict(s, max_w, bold) ==
    IF string_w(s, bold, 0) <= max_w THEN s
    ELSE LET over == {i \in 1..Len(s) : string_w(Prefix(s, i), bold, 0) >= max_w}
         IN  IF over = {} THEN s
             ELSE Prefix(s, (CHOOSE i \in over : \A j \in over : i <= j) - 1)

clip_to_width(s, max_w, bold) ==
    IF string_w(s, bold, 0) <= max_w THEN s
    ELSE LET k == FirstOverflow(s, max_w, bold)
         IN  IF k = 0 THEN s              \* the loop ran to the end
             ELSE Prefix(s, k - 1)        \* out.pop(); break

\* Typesetter(canv, left, top, line_h): the cursor, with the canvas's
\* drawString calls kept in drawn and the pages the canvas has ended in
\* pages.
Typesetter(left, top, line_h) ==
    [left |-> left, x |-> left, y |-> top, line_h |-> line_h, size |-> TsSize,
     drawn |-> <<>>, pages |-> 0]

\* c.showPage(): the canvas ends the page it was drawing on.
showPage(ts) == [ts EXCEPT !.pages = @ + 1]

\* newline that leaves x where it is.
newline_keepx(ts, n) ==
    [ts EXCEPT !.y = ts.y - ts.line_h * n]

\* newline that moves the cursor up the page.
newline_up(ts, n) ==
    [ts EXCEPT !.x = ts.left, !.y = ts.y + ts.line_h * n]

newline(ts, n) ==
    [ts EXCEPT !.x = ts.left, !.y = ts.y - ts.line_h * n]

\* segment that advances by the width at the Typesetter's own size,
\* whatever size the text is drawn at.
segment_own_size(ts, text, src, bold, size) ==
    With(IF size = 0 THEN ts.size ELSE size, LAMBDA sz :
        [ts EXCEPT !.drawn = Append(@, [x |-> ts.x, y |-> ts.y, text |-> text,
                                        bold |-> bold, src |-> src,
                                        font |-> IF bold THEN font_b ELSE font_r,
                                        size |-> sz]),
                   !.x = ts.x + string_w(text, bold, 0)])

\* src names the argument expression of the call: "lit" for a literal, else
\* the variable that held the text.  font and size are what setFont was
\* given before the drawString.
segment(ts, text, src, bold, size) ==
    With(IF size = 0 THEN ts.size ELSE size, LAMBDA sz :
        [ts EXCEPT !.drawn = Append(@, [x |-> ts.x, y |-> ts.y, text |-> text,
                                        bold |-> bold, src |-> src,
                                        font |-> IF bold THEN font_b ELSE font_r,
                                        size |-> sz]),
                   !.x = ts.x + string_w(text, bold, sz)])

\* line that leaves an empty line after the text.
line_skip(ts, text, src, bold, size) ==
    newline(segment(ts, text, src, bold, size), 2)

line(ts, text, src, bold, size) ==
    newline(segment(ts, text, src, bold, size), 1)

label_value(ts, label, value, vsrc, label_bold, value_bold) ==
    newline(segment(segment(ts, label, "lit", label_bold, 0), value, vsrc, value_bold, 0), 1)

----------------------------------------------------------------------------
(* Python string methods used by the builds *)

IsSpace(ch) == ch \in {" ", "TAB"}

RECURSIVE LStrip(_)
LStrip(s) == IF s # <<>> /\ IsSpace(Head(s)) THEN LStrip(Tail(s)) ELSE s

RECURSIVE RStrip(_)
RStrip(s) ==
    IF s # <<>> /\ IsSpace(s[Len(s)]) THEN RStrip(SubSeq(s, 1, Len(s) - 1)) ELSE s

\* str.strip()
strip(s) == RStrip(LStrip(s))

\* str.replace(old, new) for a one-character old; new is a text.
RECURSIVE replace(_, _, _)
replace(s, old, new) ==
    IF s = <<>> THEN <<>>
    ELSE (IF Head(s) = old THEN new ELSE <<Head(s)>>) \o replace(Tail(s), old, new)

\* Mutant: the fallback is dropped and the text is used as it is.
NoOr(a, b) == a

\* a or b, on texts: the empty text is falsy.
Or(a, b) == IF a # <<>> THEN a ELSE b

----------------------------------------------------------------------------
(* Specification SpecClip: clip_to_width applied to bounded inputs, then   *)
(* applied again to its own result.                                        *)

MaxClipLen == 3

ClipAlphabet == {"a", "alpha", "iota"}

ClipTexts == TextsUpTo(ClipAlphabet, MaxClipLen)

\* Column budgets: below, at and above every whole number of mono advances,
\* and the negative budgets a too-wide label would leave.
MonoAdvance == 600 * TsSize * (pt \div 1000)

ClipBudgets ==
    {k * MonoAdvance + d : k \in -1..MaxClipLen,
                           d \in {-1, 0, 1, 400 * TsSize * (pt \div 1000)}}

InitClip ==
    /\ font \in Fonts
    /\ cText \in ClipTexts
    /\ cBold \in BOOLEAN
    /\ cMaxW \in ClipBudgets
    /\ cOut = <<>>
    /\ cOut2 = <<>>
    /\ cPc = "ready"
    /\ FlowIdle
    /\ DocIdle
    /\ NumIdle
    /\ LoanIdle
    /\ TsIdle
    /\ AssetIdle
    /\ SigIdle
    /\ PairIdle
    /\ WizIdle

Clip ==
    /\ cPc = "ready"
    /\ cOut' = clip_to_width(cText, cMaxW, cBold)
    /\ cPc' = "clipped"
    /\ UNCHANGED <<font, wizVars, pairVars, tsVars, assetVars, sigVars, cText, cBold, cMaxW, cOut2, flowVars, docVars, numVars, loanVars>>

ClipAgain ==
    /\ cPc = "clipped"
    /\ cOut2' = clip_to_width(cOut, cMaxW, cBold)
    /\ cPc' = "reclipped"
    /\ UNCHANGED <<font, wizVars, pairVars, tsVars, assetVars, sigVars, cText, cBold, cMaxW, cOut, flowVars, docVars, numVars, loanVars>>

NextClip == Clip \/ ClipAgain

SpecClip == InitClip /\ [][NextClip]_vars

ClipDone == cPc \in {"clipped", "reclipped"}

Fits(s) == string_w(s, cBold, 0) <= cMaxW

\* C2 as stated: for every text, bold flag and max_w (positive, zero or
\* negative) the result is no wider than max_w and no longer than the text.
C2_ClipWithinAnyBudget ==
    ClipDone => /\ string_w(cOut, cBold, 0) <= cMaxW
                /\ Len(cOut) <= Len(cText)

\* C2 amended: the result is never longer than the text; for max_w >= 0 it
\* is no wider than max_w; for max_w < 0 it is the empty text, whose width 0
\* exceeds max_w.
C2_ClipWithinBudget ==
    ClipDone => /\ Len(cOut) <= Len(cText)
                /\ (cMaxW >= 0 => string_w(cOut, cBold, 0) <= cMaxW)
                /\ (cMaxW < 0 => cOut = <<>>)

C2_Witness ==
    /\ cPc = "clipped"
    /\ cMaxW >= 0
    /\ ~Fits(cText)
    /\ Len(cOut) = 2

\* C3: a text that fits is returned unchanged; otherwise the result is the
\* longest prefix of the text (in whole characters) that fits, whenever any
\* prefix fits at all; the call always returns.
C3_ClipLongestPrefix ==
    /\ cPc = "ready" => ENABLED Clip
    /\ ClipDone =>
         IF Fits(cText) THEN cOut = cText
         ELSE /\ IsPrefixOf(cOut, cText)
              /\ \A n \in 0..Len(cText) :
                    Fits(Prefix(cText, n)) => /\ n <= Len(cOut)
                                              /\ Fits(cOut)

C3_Witness ==
    /\ cPc = "clipped"
    /\ font = "Courier"
    /\ cText = <<"iota", "a", "alpha">>
    /\ cOut = <<"iota", "a">>

\* C4: clipping the clipped text again with the same max_w and bold flag
\* returns it unchanged.
C4_ClipIdempotent ==
    cPc = "reclipped" => cOut2 = cOut

C4_Witness ==
    /\ cPc = "reclipped"
    /\ cOut # cText
    /\ cOut # <<>>

----------------------------------------------------------------------------
(* Flow Renderer: SimpleDocTemplate.build(story, onFirstPage, onLaterPages) *)
(* lays the story out page by page.  A page begins by calling the page      *)
(* template's onPage callback once: onFirstPage on page 1, onLaterPages on  *)
(* every later page; a build that passes neither gets reportlab's           *)
(* _doNothing for both.  Flowable heights depend on the wrapped text and    *)
(* are chosen when the flowable is placed.  The mandate is drawn on a bare  *)
(* canvas and never passes through the Flow Renderer.                       *)

PageCap == 4
MaxBlockH == 2

Paragraphs(n) == Rep("Paragraph", n)

\* build_pdf: the story in the order of its story.append calls.
OfferStory(anyLogo, stamp) ==
    (IF anyLogo THEN <<"Table", "Spacer">> ELSE <<>>)
    \o Paragraphs(3) \o <<"Spacer">>
    \o Paragraphs(3)
    \o Paragraphs(1) \o <<"Spacer">>
    \o <<"Table", "Spacer">> \o Paragraphs(1) \o <<"Spacer">>
    \o Paragraphs(1) \o Paragraphs(4)
    \o Paragraphs(1) \o Paragraphs(4)
    \o Paragraphs(1) \o Paragraphs(3)
    \o <<"PageBreak">>
    \o Paragraphs(1) \o <<"Table", "Spacer">>
    \o Paragraphs(1) \o Paragraphs(8)
    \o <<"Spacer">>
    \o <<"Table">>
    \o (IF stamp THEN <<"Spacer", "Table">> ELSE <<>>)

\* aml_build_pdf: the story in the order of its story.append calls.
LetterStory(logo) ==
    (IF logo THEN <<"Image", "Spacer">> ELSE <<>>)
    \o Paragraphs(4) \o <<"Spacer">>
    \o Paragraphs(1) \o <<"Spacer">>
    \o Paragraphs(1) \o Paragraphs(3) \o <<"Spacer">>
    \o Paragraphs(1) \o Paragraphs(6) \o <<"Spacer">>
    \o Paragraphs(2)
    \o <<"PageBreak">>
    \o Paragraphs(1) \o Paragraphs(4) \o <<"Spacer">>
    \o Paragraphs(2) \o <<"Spacer">>
    \o Paragraphs(1) \o <<"Spacer">>
    \o Paragraphs(3)

\* draw_border_and_pagenum(canv, doc): two rectangles and the page number.
draw_border_and_pagenum(page, number) ==
    [hook |-> page.hook + 1, rects |-> page.rects + 2, number |-> number]

----------------------------------------------------------------------------
(* The three builds *)

LongLen == 90

\* Supplied field values: empty, blank, padded with inner white space, and
\* longer than any line of the page.
FieldTexts ==
    {<<>>, <<" ">>, <<" ", "a", " ", "a", "TAB">>, Rep("a", LongLen)}

\* The same without the blank one.
FewFieldTexts == FieldTexts \ {<<" ">>}

\* Only the two extremes.
EdgeFieldTexts == {<<>>, Rep("a", LongLen)}

Underscores(n) == Rep("_", n)

\* A literal of the source, with every character drawn as the glyph "x":
\* all characters of the literals are in both mono faces.
Lit(str) == Rep("x", Len(str))

SEPA_CI_FIXED == Lit("IT09ZZZ0000015240741007")
UMR_FIXED == Lit("ALBA-2FIN-2025-006122")

\* now_rome_date(): "dd/mm/YYYY"
now_rome_date == Lit("dd/mm/YYYY")

Seg(text, src, bold) ==
    [op |-> "segment", text |-> text, src |-> src, bold |-> bold,
     value |-> <<>>, vsrc |-> "", vbold |-> FALSE]

Line(text, src, bold) ==
    [op |-> "line", text |-> text, src |-> src, bold |-> bold,
     value |-> <<>>, vsrc |-> "", vbold |-> FALSE]

LabelValue(label, value, vsrc, label_bold, value_bold) ==
    [op |-> "label_value", text |-> label, src |-> "lit", bold |-> label_bold,
     value |-> value, vsrc |-> vsrc, vbold |-> value_bold]

\* The Typesetter calls of sdd_build_pdf, in order, on the field texts f.
SddCalls(f, data) ==
    << Line(Lit("Mandato di Addebito Diretto SEPA (SDD)"), "lit", FALSE),
       Seg(Lit("Schema: "), "lit", TRUE),
       Seg(Lit("Y CORE X B2B  "), "lit", FALSE),
       Seg(Lit("Tipo pagamento: "), "lit", TRUE),
       Line(Lit("Y Ricorrente X One-off"), "lit", FALSE),
       LabelValue(Lit("Identificativo del Creditore (SEPA CI): "), SEPA_CI_FIXED, "SEPA_CI_FIXED", TRUE, FALSE),
       LabelValue(Lit("Riferimento Unico del Mandato (UMR): "), UMR_FIXED, "UMR_FIXED", TRUE, FALSE),
       Line(Lit(""), "lit", FALSE),
       Line(Lit("Dati del Debitore (intestatario del conto)"), "lit", TRUE),
       LabelValue(Lit("Nome e Cognome / Ragione sociale: "), f.nome, "nome", FALSE, FALSE),
       LabelValue(Lit("Indirizzo: "), f.indirizzo, "indirizzo", FALSE, FALSE),
       Line(Lit("CAP / Citta / Provincia: "), "lit", FALSE),
       Line(f.capcitta, "capcitta", FALSE),
       Seg(Lit("Paese: "), "lit", FALSE),
       Seg(f.paese, "paese", FALSE),
       Seg(Lit(" Codice Fiscale / P.IVA: "), "lit", FALSE),
       Line(f.cf, "cf", FALSE),
       Seg(Lit("IBAN (senza spazi): "), "lit", FALSE),
       Line(f.iban, "iban", FALSE),
       Seg(Lit("BIC : "), "lit", FALSE),
       Line(f.bic, "bic", FALSE),
       Line(Lit(""), "lit", FALSE),
       Line(Lit("Autorizzazione"), "lit", TRUE),
       Seg(Lit("Firmando il presente mandato, autorizzo (A) "), "lit", FALSE),
       Seg(Lit("[Banca D'Alba]"), "lit", TRUE),
       Line(Lit(" a "), "lit", FALSE),
       Line(Lit("inviare alla mia banca ordini di addebito sul mio conto e (B) la "), "lit", FALSE),
       Line(Lit("mia banca ad addebitare il mio conto in conformita alle istruzioni"), "lit", FALSE),
       Seg(Lit("di "), "lit", FALSE),
       Seg(Lit("[Banca D'Alba]"), "lit", TRUE),
       Line(Lit("."), "lit", FALSE),
       Seg(Lit("Per lo schema "), "lit", FALSE),
       Seg(Lit("CORE"), "lit", TRUE),
       Line(Lit(" ho diritto a un rimborso dalla mia banca alle "), "lit", FALSE),
       Line(Lit("condizioni previste dal contratto con la mia banca; la richiesta "), "lit", FALSE),
       Seg(Lit("deve essere presentata entro "), "lit", FALSE),
       Seg(Lit("8 settimane"), "lit", TRUE),
       Line(Lit(" dalla data dell'addebito."), "lit", FALSE),
       Seg(Lit("Preavviso di addebito (prenotifica): "), "lit", TRUE),
       Line(Lit("7 giorni prima della "), "lit", FALSE),
       Line(Lit("scadenza."), "lit", FALSE),
       Line(Lit("Data: ") \o data, "data", FALSE),
       Line(Lit("Firma del Debitore : non e necessaria; i documenti sono "), "lit", FALSE),
       Line(Lit("predisposti dall'intermediario"), "lit", FALSE),
       Line(Lit(""), "lit", FALSE),
       Line(Lit("Dati del Creditore"), "lit", TRUE),
       Seg(Lit("Denominazione: "), "lit", FALSE),
       Line(Lit("Banca D'Alba [ragione sociale completa]"), "lit", FALSE),
       Line(Lit("Sede: 4 via Cavour, Alba, Italia"), "lit", FALSE),
       Seg(Lit("SEPA Creditor Identifier (CI): "), "lit", TRUE),
       Line(SEPA_CI_FIXED, "SEPA_CI_FIXED", TRUE),
       Line(Lit(""), "lit", FALSE),
       Line(Lit("Soggetto incaricato della raccolta del mandato (intermediario)"), "lit", FALSE),
       Seg(Lit("2FIN SRL - Mediatore del Credito iscritto "), "lit", FALSE),
       Line(Lit("OAM A15135"), "lit", TRUE),
       Line(Lit("Sede: 55 VIALE JENNER, Milano, Italia  Contatti: @operatore_2fin"), "lit", FALSE),
       Line(Lit("(in qualita di soggetto incaricato della raccolta del mandato per "), "lit", FALSE),
       Line(Lit("conto del Creditore)"), "lit", FALSE),
       Line(Lit(""), "lit", FALSE),
       Line(Lit("Clausole opzionali"), "lit", TRUE),
       Line(Lit("[Y] Autorizzo la conservazione elettronica del presente mandato."), "lit", FALSE),
       Line(Lit("[Y] In caso di variazione dell'IBAN o dei dati, mi impegno a darne"), "lit", FALSE),
       Line(Lit("comunicazione scritta."), "lit", FALSE),
       Seg(Lit("[Y] Revoca: il mandato puo essere revocato informando "), "lit", FALSE),
       Seg(Lit("[Banca D'Alba]"), "lit", TRUE),
       Line(Lit(" e la mia banca;"), "lit", FALSE),
       Line(Lit("effetto sui successivi addebiti."), "lit", FALSE) >>

Exec(ts, c) ==
    CASE c.op = "segment" -> segment(ts, c.text, c.src, c.bold, 0)
      [] c.op = "line" -> line(ts, c.text, c.src, c.bold, 0)
      [] c.op = "label_value" -> label_value(ts, c.text, c.value, c.vsrc, c.bold, c.vbold)

\* The calls lo..hi made in order on ts: the first half, then the second
\* half on the Typesetter the first half left.
RECURSIVE Run(_, _, _, _)
Run(ts, calls, lo, hi) ==
    IF lo > hi THEN ts
    ELSE IF lo = hi THEN Exec(ts, calls[lo])
    ELSE LET mid == (lo + hi) \div 2
         IN  With(Run(ts, calls, lo, mid), LAMBDA half : Run(half, calls, mid + 1, hi))

\* sdd_build_pdf: the texts of the fields before clipping ...
SddFields(values) ==
    [nome      |-> Or(strip(values.nome), Underscores(30)),
     indirizzo |-> Or(strip(values.indirizzo), Underscores(55)),
     capcitta  |-> Or(strip(values.capcitta), Underscores(42)),
     paese     |-> Or(strip(values.paese), Underscores(20)),
     cf        |-> Or(strip(values.cf), Underscores(16)),
     iban      |-> Or(replace(values.iban, " ", <<>>), Underscores(34)),
     bic       |-> Or(strip(values.bic), Underscores(11))]

\* Mutant: the identifiers are clipped to the line like the text fields.
SddClippedAll(f) ==
    LET max_w == A4w - 30 * mm
    IN  [f EXCEPT
           !.nome = clip_to_width(f.nome,
                      max_w - string_w(Lit("Nome e Cognome / Ragione sociale: "), FALSE, 0),
                      FALSE),
           !.indirizzo = clip_to_width(f.indirizzo,
                      max_w - string_w(Lit("Indirizzo: "), FALSE, 0), FALSE),
           !.capcitta = clip_to_width(f.capcitta, max_w, FALSE),
           !.paese = clip_to_width(f.paese, string_w(Underscores(20), FALSE, 0), FALSE),
           !.cf = clip_to_width(f.cf, max_w, FALSE),
           !.iban = clip_to_width(f.iban, max_w, FALSE),
           !.bic = clip_to_width(f.bic, max_w, FALSE)]

\* ... and after it: only nome, indirizzo, capcitta and paese are clipped.
SddClipped(f) ==
    LET max_w == A4w - 30 * mm
    IN  [f EXCEPT
           !.nome = clip_to_width(f.nome,
                      max_w - string_w(Lit("Nome e Cognome / Ragione sociale: "), FALSE, 0),
                      FALSE),
           !.indirizzo = clip_to_width(f.indirizzo,
                      max_w - string_w(Lit("Indirizzo: "), FALSE, 0), FALSE),
           !.capcitta = clip_to_width(f.capcitta, max_w, FALSE),
           !.paese = clip_to_width(f.paese, string_w(Underscores(20), FALSE, 0), FALSE)]

\* build_pdf: the client line.
OfferFields(values) ==
    [cliente |-> Or(strip(values.cliente), Underscores(20))]

\* aml_build_pdf: the three bullets of the applicant's data.
LetterFields(values) ==
    [aml_nome |-> Or(strip(values.aml_nome), <<"[">> \o Underscores(40) \o <<"]">>),
     aml_cf   |-> Or(strip(values.aml_cf), <<"[">> \o Underscores(20) \o <<"]">>),
     aml_iban |-> Or(replace(values.aml_iban, " ", <<>>),
                     <<"[">> \o Underscores(40) \o <<"]">>)]

InitRender ==
    /\ font \in Fonts
    /\ ClipIdle
    /\ FlowIdle
    /\ DocIdle
    /\ NumIdle
    /\ LoanIdle
    /\ TsIdle
    /\ AssetIdle
    /\ SigIdle
    /\ PairIdle
    /\ WizIdle

\* build_pdf up to its doc.build call.
build_pdf ==
    /\ fPc = "idle"
    /\ \E cliente \in FieldTexts :
          /\ dValues' = [cliente |-> cliente]
          /\ dFields' = OfferFields(dValues')
    /\ \E anyLogo \in BOOLEAN, stamp \in BOOLEAN :
          fStory' = OfferStory(anyLogo, stamp)
    /\ fDoc' = "offer"
    /\ fOnFirst' = "draw_border_and_pagenum"
    /\ fOnLater' = "draw_border_and_pagenum"
    /\ fPc' = "begin"
    /\ UNCHANGED <<font, wizVars, pairVars, tsVars, assetVars, sigVars, clipVars, fIdx, fLeft, fPages, dTs, numVars, loanVars>>

\* aml_build_pdf up to its doc.build call, which passes no callbacks.
aml_build_pdf ==
    /\ fPc = "idle"
    /\ \E nome \in FieldTexts, cf \in FewFieldTexts, iban \in FewFieldTexts :
          /\ dValues' = [aml_nome |-> nome, aml_cf |-> cf, aml_iban |-> iban]
          /\ dFields' = LetterFields(dValues')
    /\ \E logo \in BOOLEAN : fStory' = LetterStory(logo)
    /\ fDoc' = "letter"
    /\ fOnFirst' = "_doNothing"
    /\ fOnLater' = "_doNothing"
    /\ fPc' = "begin"
    /\ UNCHANGED <<font, wizVars, pairVars, tsVars, assetVars, sigVars, clipVars, fIdx, fLeft, fPages, dTs, numVars, loanVars>>

\* sdd_build_pdf: one canvas, one Typesetter, the calls in order, then
\* c.showPage() and c.save().
sdd_build_pdf ==
    /\ fPc = "idle"
    /\ \E nome \in FewFieldTexts, indirizzo \in FieldTexts, capcitta \in EdgeFieldTexts,
          paese \in EdgeFieldTexts, cf \in FieldTexts, iban \in FieldTexts,
          bic \in EdgeFieldTexts :
        \E values \in {[nome |-> nome, indirizzo |-> indirizzo, capcitta |-> capcitta,
                        paese |-> paese, cf |-> cf, iban |-> iban, bic |-> bic]} :
        \E fields \in {SddClipped(SddFields(values))} :
        \E calls \in {SddCalls(fields, now_rome_date)} :
        \E ts \in {Typesetter(15 * mm, A4h - 15 * mm, 14 * pt)} :
          /\ dValues' = values
          /\ dFields' = fields
          /\ dTs' = showPage(Run(ts, calls, 1, Len(calls)))
    /\ fDoc' = "mandate"
    /\ fPc' = "done"
    /\ UNCHANGED <<font, wizVars, pairVars, tsVars, assetVars, sigVars, clipVars, fStory, fOnFirst, fOnLater, fIdx, fLeft, fPages, numVars, loanVars>>

\* handle_pageBegin: the next page starts and its template's onPage runs.
PageBegin ==
    /\ fPc = "begin"
    /\ LET number == Len(fPages) + 1
           onPage == IF number = 1 THEN fOnFirst ELSE fOnLater
           blank  == [hook |-> 0, rects |-> 0, number |-> 0]
       IN  fPages' = Append(fPages,
                            IF onPage = "draw_border_and_pagenum"
                            THEN draw_border_and_pagenum(blank, number)
                            ELSE blank)
    /\ fLeft' = PageCap
    /\ fPc' = "flow"
    /\ UNCHANGED <<font, wizVars, pairVars, tsVars, assetVars, sigVars, clipVars, docVars, fDoc, fStory, fOnFirst, fOnLater, fIdx, numVars, loanVars>>

\* The next flowable is placed on the page, or ends the page: a PageBreak,
\* or a flowable higher than what is left of the frame.
PlaceFlowable ==
    /\ fPc = "flow"
    /\ fIdx <= Len(fStory)
    /\ IF fStory[fIdx] = "PageBreak"
       THEN /\ fIdx' = fIdx + 1
            /\ fPc' = "begin"
            /\ UNCHANGED fLeft
       ELSE \E h \in 1..MaxBlockH :
              IF h <= fLeft
              THEN /\ fLeft' = fLeft - h
                   /\ fIdx' = fIdx + 1
                   /\ UNCHANGED fPc
              ELSE /\ fPc' = "begin"
                   /\ UNCHANGED <<fIdx, fLeft>>
    /\ UNCHANGED <<font, wizVars, pairVars, tsVars, assetVars, sigVars, clipVars, docVars, fDoc, fStory, fOnFirst, fOnLater, fPages, numVars, loanVars>>

\* The story is exhausted: the last page ends and the document is saved.
EndBuild ==
    /\ fPc = "flow"
    /\ fIdx > Len(fStory)
    /\ fPc' = "done"
    /\ UNCHANGED <<font, wizVars, pairVars, tsVars, assetVars, sigVars, clipVars, docVars, fDoc, fStory, fOnFirst, fOnLater, fIdx, fLeft, fPages, numVars, loanVars>>

NextRender ==
    \/ build_pdf \/ aml_build_pdf \/ sdd_build_pdf
    \/ PageBegin \/ PlaceFlowable \/ EndBuild

SpecRender == InitRender /\ [][NextRender]_vars

\* C1: every page of the credit offer and of the guarantee letter has had
\* the page-decoration hook invoked on it exactly once (two borders and its
\* own page number drawn).
C1_EveryPageDecoratedOnce ==
    \A n \in 1..Len(fPages) :
        /\ fPages[n].hook = 1
        /\ fPages[n].rects = 2
        /\ fPages[n].number = n

\* The texts the mandate's canvas drew from the variable src.
Placed(src) ==
    {dTs.drawn[i].text : i \in {j \in DOMAIN dTs.drawn : dTs.drawn[j].src = src}}

\* The right edge of the mandate's line: the margin of 15 mm.
RightEdge == A4w - 15 * mm

\* C5: in the mandate the fiscal identifier and the BIC are placed whole as
\* supplied (stripped), and the IBAN whole with its spaces removed, whatever
\* their length: no character is cut off, even where the text runs over the
\* right edge of the line.
C5_IdentifiersUnclipped ==
    (fDoc = "mandate" /\ fPc = "done") =>
        /\ strip(dValues.cf) # <<>> => Placed("cf") = {strip(dValues.cf)}
        /\ strip(dValues.bic) # <<>> => Placed("bic") = {strip(dValues.bic)}
        /\ replace(dValues.iban, " ", <<>>) # <<>> =>
              Placed("iban") = {replace(dValues.iban, " ", <<>>)}

C5_Witness ==
    /\ fDoc = "mandate" /\ fPc = "done"
    /\ \E i \in DOMAIN dTs.drawn :
          /\ dTs.drawn[i].src = "iban"
          /\ Len(dTs.drawn[i].text) = LongLen
          /\ dTs.drawn[i].x + string_w(dTs.drawn[i].text, FALSE, 0) > RightEdge
    /\ Placed("cf") = {<<"a", " ", "a">>}
    /\ Len(dValues.bic) = LongLen

\* C6: in each of the three documents a free-text field supplied empty is
\* placed as its underscore placeholder of fixed length (in brackets in the
\* guarantee letter), and no field is placed as the empty text, clipping
\* in the mandate included.
C6_EmptyFieldsGetPlaceholders ==
    /\ (fDoc = "offer") =>
          /\ dValues.cliente = <<>> => dFields.cliente = Rep("_", 20)
          /\ dFields.cliente # <<>>
    /\ (fDoc = "letter") =>
          LET width == [aml_nome |-> 40, aml_cf |-> 20, aml_iban |-> 40]
          IN  \A k \in DOMAIN width :
                /\ dValues[k] = <<>> =>
                      dFields[k] = <<"[">> \o Rep("_", width[k]) \o <<"]">>
                /\ dFields[k] # <<>>
    /\ (fDoc = "mandate" /\ fPc = "done") =>
          LET width == [nome |-> 30, indirizzo |-> 55, capcitta |-> 42, paese |-> 20,
                        cf |-> 16, iban |-> 34, bic |-> 11]
          IN  \A k \in DOMAIN width :
                /\ dValues[k] = <<>> => Placed(k) = {Rep("_", width[k])}
                /\ Placed(k) # {}
                /\ <<>> \notin Placed(k)

C6_Witness ==
    /\ fDoc = "mandate" /\ fPc = "done"
    /\ dValues.indirizzo = <<>>
    /\ Placed("indirizzo") = {Rep("_", 55)}
    /\ dValues.nome # <<>>
    /\ dValues.iban = <<" ">>

----------------------------------------------------------------------------
(* Python int: naturals of any size, as little-endian sequences of limbs   *)
(* in base 2^15 without a leading zero limb; <<>> is 0.                    *)

Base == 2^15

BNorm(a) ==
    With(a, LAMBDA x :
        With({i \in DOMAIN x : x[i] # 0}, LAMBDA nz :
            IF nz = {} THEN <<>>
            ELSE SubSeq(x, 1, CHOOSE i \in nz : \A j \in nz : j <= i)))

\* A natural below 2^31.
BFromInt(n) ==
    BNorm(<<n % Base, (n \div Base) % Base, n \div (Base * Base)>>)

\* -1, 0, 1 as a < b, a = b, a > b.
BCmp(a, b) ==
    With2(a, b, LAMBDA x, y :
        IF Len(x) # Len(y) THEN (IF Len(x) < Len(y) THEN -1 ELSE 1)
        ELSE With({i \in DOMAIN x : x[i] # y[i]}, LAMBDA d :
             IF d = {} THEN 0
             ELSE With(CHOOSE k \in d : \A j \in d : j <= k, LAMBDA i :
                  IF x[i] < y[i] THEN -1 ELSE 1)))

BLimb(a, i) == IF i <= Len(a) THEN a[i] ELSE 0

RECURSIVE BAddFrom(_, _, _, _)
BAddFrom(a, b, i, carry) ==
    IF i > Len(a) /\ i > Len(b) THEN (IF carry = 0 THEN <<>> ELSE <<carry>>)
    ELSE LET t == BLimb(a, i) + BLimb(b, i) + carry
         IN  <<t % Base>> \o BAddFrom(a, b, i + 1, t \div Base)

BAdd(a, b) == With2(a, b, LAMBDA x, y : BAddFrom(x, y, 1, 0))

RECURSIVE BSubFrom(_, _, _, _)
BSubFrom(a, b, i, borrow) ==
    IF i > Len(a) THEN <<>>
    ELSE LET t == a[i] - BLimb(b, i) - borrow
         IN  <<t % Base>> \o BSubFrom(a, b, i + 1, IF t < 0 THEN 1 ELSE 0)

\* a - b for a >= b.
BSub(a, b) == With2(a, b, LAMBDA x, y : With(BSubFrom(x, y, 1, 0), LAMBDA d : BNorm(d)))

RECURSIVE BMulSmallFrom(_, _, _, _)
BMulSmallFrom(a, k, i, carry) ==
    IF i > Len(a) THEN (IF carry = 0 THEN <<>> ELSE <<carry>>)
    ELSE LET t == a[i] * k + carry
         IN  <<t % Base>> \o BMulSmallFrom(a, k, i + 1, t \div Base)

\* a * k for 0 <= k < Base.
BMulSmall(a, k) ==
    With2(a, k, LAMBDA x, n : IF n = 0 THEN <<>> ELSE BMulSmallFrom(x, n, 1, 0))

\* a * Base^n
BShiftLimbs(a, n) == With(a, LAMBDA x : IF x = <<>> THEN <<>> ELSE [i \in 1..n |-> 0] \o x)

RECURSIVE BMulFrom(_, _, _)
BMulFrom(a, b, i) ==
    IF i > Len(b) THEN <<>>
    ELSE With(BMulFrom(a, b, i + 1), LAMBDA hi : BAdd(BMulSmall(a, b[i]), BShiftLimbs(hi, 1)))

BMul(a, b) == With2(a, b, LAMBDA x, y : BMulFrom(x, y, 1))

\* <<quotient, remainder>> of a by k, 0 < k < Base; i runs from the top limb.
RECURSIVE BDivSmallFrom(_, _, _, _, _)
BDivSmallFrom(a, k, i, rem, quot) ==
    IF i = 0 THEN <<BNorm(quot), rem>>
    ELSE LET t == rem * Base + a[i]
         IN  IF t < k THEN BDivSmallFrom(a, k, i - 1, t, <<0>> \o quot)
             ELSE BDivSmallFrom(a, k, i - 1, t % k, <<t \div k>> \o quot)

BDivSmall(a, k) == With2(a, k, LAMBDA x, n : BDivSmallFrom(x, n, Len(x), 0, <<>>))

\* The number of bits of a: 0 for 0.
BBitLen(a) ==
    With(a, LAMBDA x :
        IF x = <<>> THEN 0
        ELSE 15 * (Len(x) - 1)
             + (CHOOSE k \in 1..15 : 2^(k - 1) <= x[Len(x)] /\ x[Len(x)] < 2^k))

\* a * 2^s
BShl(a, s) == With(BMulSmall(a, 2^(s % 15)), LAMBDA x : BShiftLimbs(x, s \div 15))

\* a \div 2^s
BShr(a, s) ==
    With2(a, s, LAMBDA x, n :
        IF n \div 15 >= Len(x) THEN <<>>
        ELSE BDivSmall(SubSeq(x, n \div 15 + 1, Len(x)), 2^(n % 15))[1])

\* The largest q in lo..hi with b * q <= r (b * lo <= r is given).
RECURSIVE BQuotDigit(_, _, _, _)
BQuotDigit(b, r, lo, hi) ==
    IF lo = hi THEN lo
    ELSE LET mid == (lo + hi + 1) \div 2
         IN  IF BCmp(BMulSmall(b, mid), r) <= 0
             THEN BQuotDigit(b, r, mid, hi)
             ELSE BQuotDigit(b, r, lo, mid - 1)

\* One step of the long division of a by b: the next limb of a is brought
\* down to the remainder st[1] and the quotient st[2] gets its next limb.
\* The quotient limb lies between the quotients of the leading limbs of r and
\* b taken low and high: r < b * Base, so r has at most one limb more than b.
BDivStep(b, st, limb) ==
    With(BNorm(<<limb>> \o st[1]), LAMBDA r :
    LET n   == Len(b)
        top == BLimb(r, n + 1) * Base + BLimb(r, n)
        lo  == top \div (b[n] + 1)
        hi  == (top + 1) \div b[n]
    IN  With(BQuotDigit(b, r, lo, IF hi < Base THEN hi ELSE Base - 1), LAMBDA q :
        <<BSub(r, BMulSmall(b, q)), <<q>> \o st[2]>>))

\* <<quotient, remainder>> of a by b # 0: long division from the top limb.
RECURSIVE BDivModFrom(_, _, _, _)
BDivModFrom(a, b, i, st) ==
    IF i = 0 THEN <<BNorm(st[2]), st[1]>>
    ELSE With(BDivStep(b, st, a[i]), LAMBDA nx : BDivModFrom(a, b, i - 1, nx))

\* For a divisor of several limbs both numbers are first scaled by the power
\* of two that fills the divisor's top limb, which keeps the quotient.
BDivMod(a, b) ==
    With2(a, b, LAMBDA x, y :
        IF Len(y) = 1
        THEN With(BDivSmall(x, y[1]), LAMBDA qr : <<qr[1], BFromInt(qr[2])>>)
        ELSE With(15 * Len(y) - BBitLen(y), LAMBDA k :
             With2(BShl(x, k), BShl(y, k), LAMBDA xs, ys :
             With(BDivModFrom(xs, ys, Len(xs), <<<<>>, <<>>>>), LAMBDA qr :
             <<qr[1], BShr(qr[2], k)>>))))

\* a is a multiple of 2^s.
BDivisibleBy2(a, s) == With2(a, s, LAMBDA x, n : x = BShl(BShr(x, n), n))

BIsOdd(a) == With(a, LAMBDA x : x # <<>> /\ x[1] % 2 = 1)

\* a / 2^s rounded to the nearest natural, a tie to the even one.
BShrHalfEven(a, s) ==
    With2(a, s, LAMBDA x, n :
        IF n = 0 THEN x
        ELSE With(BShr(x, n), LAMBDA kept :
             LET half == BIsOdd(BShr(x, n - 1))
                 rest == ~BDivisibleBy2(x, n - 1)
             IN  IF half /\ (rest \/ BIsOdd(kept)) THEN BAdd(kept, <<1>>) ELSE kept))

RECURSIVE BPow10(_)
BPow10(n) == IF n = 0 THEN <<1>> ELSE With(BPow10(n - 1), LAMBDA p : BMulSmall(p, 10))

----------------------------------------------------------------------------
(* Python float: IEEE 754 binary64.  A finite value is (-1)^s * m * 2^e    *)
(* with m of 53 bits (fewer only at e = -1074), zero is m = <<>>, e = 0.   *)
(* An operation that raises yields a record whose k names the exception,   *)
(* and an operation on such a record yields it unchanged.                  *)

NaN == [k |-> "nan", s |-> 0, m |-> <<>>, e |-> 0]

Inf(s) == [k |-> "inf", s |-> s, m |-> <<>>, e |-> 0]

Zero(s) == [k |-> "fin", s |-> s, m |-> <<>>, e |-> 0]

Raise(exc) == [k |-> exc, s |-> 0, m |-> <<>>, e |-> 0]

IsFloat(v) == v.k \in {"fin", "inf", "nan"}

IsFinite(v) == v.k = "fin"

IsZero(v) == v.k = "fin" /\ v.m = <<>>

\* The float next to q * 2^e with sign s, when q has at least 54 bits or
\* e <= -1074; inexact tells that q was cut off from something larger.  It
\* is the nearest one, a tie to the even one (mode "even"), or the one
\* toward zero ("down") or away from it ("up").
RoundQuot(s, q, inexact, e, mode) ==
    LET t0 == BBitLen(q) - 53
        t  == IF e + t0 < -1074 THEN -1074 - e ELSE t0
    IN  With(BShr(q, t), LAMBDA kept :
        LET half == BIsOdd(BShr(q, t - 1))
            rest == inexact \/ ~BDivisibleBy2(q, t - 1)
            up   == CASE mode = "even" -> half /\ (rest \/ BIsOdd(kept))
                      [] mode = "down" -> FALSE
                      [] mode = "up"   -> half \/ rest
        IN  With(IF up THEN BAdd(kept, <<1>>) ELSE kept, LAMBDA m1 :
            LET carry == BBitLen(m1) = 54
            IN  With(IF carry THEN BShr(m1, 1) ELSE m1, LAMBDA m :
                IF m = <<>> THEN Zero(s)
                ELSE IF e + t + (IF carry THEN 1 ELSE 0) > 971 THEN Inf(s)
                ELSE [k |-> "fin", s |-> s, m |-> m,
                      e |-> e + t + (IF carry THEN 1 ELSE 0)])))

\* The floats next to (num / den) * 2^e2 with sign s, one for each mode.
RoundRats(s, num, den, e2, modes) ==
    With2(num, den, LAMBDA n, d :
        IF n = <<>> THEN {Zero(s)}
        ELSE LET a == 55 - (BBitLen(n) - BBitLen(d))
             IN  With(BDivMod(IF a >= 0 THEN BShl(n, a) ELSE BShr(n, -a), d), LAMBDA qr :
                 With(qr[2] # <<>> \/ (a < 0 /\ ~BDivisibleBy2(n, -a)), LAMBDA inexact :
                 {RoundQuot(s, qr[1], inexact, e2 - a, mode) : mode \in modes})))

\* The float next to (num / den) * 2^e2 with sign s.
RoundRat(s, num, den, e2, mode) ==
    CHOOSE v \in RoundRats(s, num, den, e2, {mode}) : TRUE

\* float(n) for an int 0 <= n < 2^31, which is exact.
IntToFloat(n) ==
    IF n = 0 THEN Zero(0)
    ELSE With(BFromInt(n), LAMBDA b :
         With(BBitLen(b), LAMBDA len :
         [k |-> "fin", s |-> 0, m |-> BShl(b, 53 - len), e |-> len - 53]))

FNeg(a0) ==
    With(a0, LAMBDA a : IF IsFloat(a) /\ a.k # "nan" THEN [a EXCEPT !.s = 1 - a.s] ELSE a)

FMul(a0, b0) ==
    With2(a0, b0, LAMBDA a, b :
        IF ~IsFloat(a) THEN a
        ELSE IF ~IsFloat(b) THEN b
        ELSE IF a.k = "nan" \/ b.k = "nan" THEN NaN
        ELSE IF a.k = "inf" \/ b.k = "inf"
             THEN (IF IsZero(a) \/ IsZero(b) THEN NaN ELSE Inf((a.s + b.s) % 2))
        ELSE RoundRat((a.s + b.s) % 2, BMul(a.m, b.m), <<1>>, a.e + b.e, "even"))

FDiv(a0, b0) ==
    With2(a0, b0, LAMBDA a, b :
        IF ~IsFloat(a) THEN a
        ELSE IF ~IsFloat(b) THEN b
        ELSE IF IsZero(b) THEN Raise("ZeroDivisionError")
        ELSE IF a.k = "nan" \/ b.k = "nan" THEN NaN
        ELSE IF a.k = "inf" THEN (IF b.k = "inf" THEN NaN ELSE Inf((a.s + b.s) % 2))
        ELSE IF b.k = "inf" THEN Zero((a.s + b.s) % 2)
        ELSE RoundRat((a.s + b.s) % 2, a.m, b.m, a.e - b.e, "even"))

\* An addend more than 120 binary places below the other one only makes the
\* sum inexact: any nonzero value that far below rounds the same way.
FSticky(a, top) ==
    IF a.e < top - 120 THEN [a EXCEPT !.m = <<1>>, !.e = top - 120] ELSE a

FAdd(a0, b0) ==
    With2(a0, b0, LAMBDA a, b :
        IF ~IsFloat(a) THEN a
        ELSE IF ~IsFloat(b) THEN b
        ELSE IF a.k = "nan" \/ b.k = "nan" THEN NaN
        ELSE IF a.k = "inf" THEN (IF b.k = "inf" /\ b.s # a.s THEN NaN ELSE a)
        ELSE IF b.k = "inf" THEN b
        ELSE IF IsZero(a) THEN (IF IsZero(b) /\ a.s # b.s THEN Zero(0) ELSE b)
        ELSE IF IsZero(b) THEN a
        ELSE LET top == IF a.e < b.e THEN b.e ELSE a.e
             IN  With2(FSticky(a, top), FSticky(b, top), LAMBDA x, y :
                 LET e == IF x.e < y.e THEN x.e ELSE y.e
                 IN  With2(BShl(x.m, x.e - e), BShl(y.m, y.e - e), LAMBDA am, bm :
                     With(BCmp(am, bm), LAMBDA c :
                     IF a.s = b.s THEN RoundRat(a.s, BAdd(am, bm), <<1>>, e, "even")
                     ELSE IF c = 0 THEN Zero(0)
                     ELSE IF c > 0 THEN RoundRat(a.s, BSub(am, bm), <<1>>, e, "even")
                     ELSE RoundRat(b.s, BSub(bm, am), <<1>>, e, "even")))))

FSub(a, b) == FAdd(a, FNeg(b))

\* a < b; FALSE when either is not a number.
FLt(a, b) ==
    With(FSub(a, b), LAMBDA d : d.k \in {"fin", "inf"} /\ d.s = 1 /\ ~IsZero(d))

\* a == b
FEq(a0, b0) ==
    With2(a0, b0, LAMBDA a, b :
    With(FSub(a, b), LAMBDA d : IsZero(d) \/ (a.k = "inf" /\ b.k = "inf" /\ a.s = b.s)))

One == IntToFloat(1)

\* The rate taken per year: one period in the year.
OnePeriod == IntToFloat(1)

Twelve == IntToFloat(12)

Hundred == IntToFloat(100)

\* Working precision of the enclosures of powers: eight limbs.
PowBits == 8 * 15

\* An enclosure [lo, hi] * 2^e cut back to PowBits bits, outward.
IvTrunc(iv) ==
    With(BBitLen(iv.hi) - PowBits, LAMBDA cut :
        IF cut <= 0 THEN iv
        ELSE [lo |-> BShr(iv.lo, cut),
              hi |-> IF BDivisibleBy2(iv.hi, cut) THEN BShr(iv.hi, cut)
                     ELSE BAdd(BShr(iv.hi, cut), <<1>>),
              e  |-> iv.e + cut])

IvMul(x, y) ==
    With2(BMul(x.lo, y.lo), BMul(x.hi, y.hi), LAMBDA l, h :
        IvTrunc([lo |-> l, hi |-> h, e |-> x.e + y.e]))

\* An enclosure of x^n, n >= 1, by repeated squaring.
RECURSIVE IvPow(_, _)
IvPow(x, n) ==
    IF n = 1 THEN x
    ELSE With(IvPow(x, n \div 2), LAMBDA h :
         With(IvMul(h, h), LAMBDA sq : IF n % 2 = 0 THEN sq ELSE IvMul(sq, x)))

\* x ** (-n) for an int n >= 1: float_pow hands it to the C library's pow,
\* whose result is one of the two floats next to the exact power (the power
\* itself when it is a float); which one is the library's choice.
float_pow(x, n) ==
    IF ~IsFloat(x) THEN {x}
    ELSE IF x.k = "nan" THEN {NaN}
    ELSE IF x.k = "inf" THEN {Zero(IF n % 2 = 1 THEN x.s ELSE 0)}
    ELSE IF IsZero(x) THEN {Raise("ZeroDivisionError")}
    ELSE With(IvPow([lo |-> x.m, hi |-> x.m, e |-> x.e], n), LAMBDA p :
         {IF v.k = "inf" THEN Raise("OverflowError") ELSE v :
            v \in UNION {RoundRats(IF n % 2 = 1 THEN x.s ELSE 0, <<1>>, b, -p.e,
                                   {"down", "up"}) : b \in {p.lo, p.hi}}})

\* monthly_payment without the test of r == 0: the amortization formula at
\* every rate.
monthly_payment_nozero(principal, tan_percent, months) ==
    IF months <= 0 THEN {Zero(0)}
    ELSE With(FDiv(tan_percent, Hundred), LAMBDA c :
         With(FDiv(c, Twelve), LAMBDA r :
         {With(FSub(One, pw), LAMBDA d :
          With(FDiv(r, d), LAMBDA q : FMul(principal, q))) :
            pw \in With(FAdd(One, r), LAMBDA b : float_pow(b, months))}))

\* The outcomes of monthly_payment(principal, tan_percent, months): floats,
\* or the exception the call raises.
monthly_payment(principal, tan_percent, months) ==
    IF months <= 0 THEN {Zero(0)}
    ELSE With(FDiv(tan_percent, Hundred), LAMBDA c :
         With(FDiv(c, Twelve), LAMBDA r :
         IF IsZero(r) THEN {With(IntToFloat(months), LAMBDA n : FDiv(principal, n))}
         ELSE {With(FSub(One, pw), LAMBDA d :
               With(FDiv(r, d), LAMBDA q : FMul(principal, q))) :
                 pw \in With(FAdd(One, r), LAMBDA b : float_pow(b, months))}))

----------------------------------------------------------------------------
(* float(str) and the format specification ",.2f"                          *)

Digits == {"0", "1", "2", "3", "4", "5", "6", "7", "8", "9"}

DigitChars == <<"0", "1", "2", "3", "4", "5", "6", "7", "8", "9">>

DigitChar(d) == DigitChars[d + 1]

DigitVal(ch) == (CHOOSE i \in DOMAIN DigitChars : DigitChars[i] = ch) - 1

AllDigits(s) == \A i \in DOMAIN s : s[i] \in Digits

\* The first index of ch in s, 0 when there is none.
IndexOf(s, ch) ==
    With({i \in DOMAIN s : s[i] = ch}, LAMBDA at :
        IF at = {} THEN 0 ELSE CHOOSE i \in at : \A j \in at : i <= j)

\* The natural written by the decimal digits ds, from digit i on.
RECURSIVE BFromDigitsFrom(_, _, _)
BFromDigitsFrom(ds, i, acc) ==
    IF i > Len(ds) THEN acc
    ELSE With(BAdd(BMulSmall(acc, 10), BFromInt(DigitVal(ds[i]))), LAMBDA nx :
         BFromDigitsFrom(ds, i + 1, nx))

BFromDigits(ds) == BFromDigitsFrom(ds, 1, <<>>)

\* The same as an int, for the few digits of an exponent.
RECURSIVE IntFromDigits(_)
IntFromDigits(ds) ==
    With(ds, LAMBDA d :
        IF d = <<>> THEN 0
        ELSE IntFromDigits(SubSeq(d, 1, Len(d) - 1)) * 10 + DigitVal(d[Len(d)]))

\* The decimal digits of the natural n, none for 0.
RECURSIVE DecimalDigits(_)
DecimalDigits(n) ==
    IF n = <<>> THEN <<>>
    ELSE With(BDivSmall(n, 10), LAMBDA qr : DecimalDigits(qr[1]) \o <<DigitChar(qr[2])>>)

\* The float nearest to (-1)^s * ds * 10^x.
DecimalToFloat(s, ds, x) ==
    With(BFromDigits(ds), LAMBDA n :
        IF x >= 0 THEN RoundRat(s, BMul(n, BPow10(x)), <<1>>, 0, "even")
        ELSE RoundRat(s, n, BPow10(-x), 0, "even"))

\* The float written by a mantissa text and, behind an "e", an exponent
\* text: digits [. digits] with a digit in it, and [sign] digits.
DecimalFloat(sgn, mant, hasExp, expo) ==
    With(IndexOf(mant, "."), LAMBDA dot :
    With2(IF dot = 0 THEN mant ELSE SubSeq(mant, 1, dot - 1),
          IF dot = 0 THEN <<>> ELSE SubSeq(mant, dot + 1, Len(mant)), LAMBDA intp, fracp :
    With(IF expo # <<>> /\ expo[1] \in {"+", "-"} THEN Tail(expo) ELSE expo, LAMBDA eDigits :
        IF /\ AllDigits(intp) /\ AllDigits(fracp)
           /\ Len(intp) + Len(fracp) >= 1
           /\ hasExp => (eDigits # <<>> /\ AllDigits(eDigits))
        THEN DecimalToFloat(sgn, intp \o fracp,
                            (IF expo # <<>> /\ expo[1] = "-" THEN -1 ELSE 1)
                                * IntFromDigits(eDigits) - Len(fracp))
        ELSE Raise("ValueError"))))

\* float(t) for a str t: white space around it is dropped, an underscore
\* may stand between two digits, then [sign] "inf" | "infinity" | "nan" or
\* [sign] digits [. digits] [e [sign] digits] with a digit in the mantissa;
\* anything else raises ValueError.  (Texts are lower case.)
float(t0) ==
    With(strip(t0), LAMBDA t :
    IF \E i \in DOMAIN t :
          t[i] = "_" /\ ~(/\ 1 < i /\ i < Len(t)
                          /\ t[i - 1] \in Digits /\ t[i + 1] \in Digits)
    THEN Raise("ValueError")
    ELSE With(replace(t, "_", <<>>), LAMBDA u :
         LET signed == u # <<>> /\ u[1] \in {"+", "-"}
             sgn    == IF signed /\ u[1] = "-" THEN 1 ELSE 0
         IN  With(IF signed THEN Tail(u) ELSE u, LAMBDA body :
             IF body \in {<<"i", "n", "f">>, <<"i", "n", "f", "i", "n", "i", "t", "y">>}
             THEN Inf(sgn)
             ELSE IF body = <<"n", "a", "n">> THEN NaN
             ELSE With(IndexOf(body, "e"), LAMBDA ePos :
                  IF ePos = 0 THEN DecimalFloat(sgn, body, FALSE, <<>>)
                  ELSE DecimalFloat(sgn, SubSeq(body, 1, ePos - 1), TRUE,
                                    SubSeq(body, ePos + 1, Len(body)))))))

\* parse_num's local t: what is left of txt for float to read.
parse_num_t(txt) ==
    replace(replace(replace(strip(txt), " ", <<>>), ".", <<>>), ",", <<".">>)

parse_num(txt) == float(parse_num_t(txt))

\* abs(v) * 100 rounded to the nearest natural, a tie to the even one.
RoundCents(v) ==
    With(BMulSmall(v.m, 100), LAMBDA c :
        IF v.e >= 0 THEN BShl(c, v.e) ELSE BShrHalfEven(c, -v.e))

\* The digits ds with a "," before every group of three from the right.
RECURSIVE Grouped(_)
Grouped(ds) ==
    With(ds, LAMBDA d :
        IF Len(d) <= 3 THEN d
        ELSE Grouped(SubSeq(d, 1, Len(d) - 3)) \o <<",">> \o SubSeq(d, Len(d) - 2, Len(d)))

\* format(v, ",.2f")
format_2f(v) ==
    LET sign == IF v.s = 1 THEN <<"-">> ELSE <<>>
    IN  IF v.k = "nan" THEN <<"n", "a", "n">>
        ELSE IF v.k = "inf" THEN sign \o <<"i", "n", "f">>
        ELSE With(BDivSmall(RoundCents(v), 100), LAMBDA qr :
             With(IF qr[1] = <<>> THEN <<"0">> ELSE DecimalDigits(qr[1]), LAMBDA ip :
             sign \o Grouped(ip) \o <<".">>
             \o <<DigitChar(qr[2] \div 10), DigitChar(qr[2] % 10)>>))

\* The euro sign is the one character "EUR".
fmt_eur(v) ==
    <<"EUR", " ">> \o
    replace(replace(replace(format_2f(v), ",", <<"X">>), ".", <<",">>), "X", <<".">>)

\* a <= b
FLe(a0, b0) == With2(a0, b0, LAMBDA a, b : FLt(a, b) \/ FEq(a, b))

----------------------------------------------------------------------------
(* Specification SpecNum: a text is parsed by parse_num and the value is   *)
(* printed by fmt_eur, as the amount typed into the dialogue is on the     *)
(* offer.                                                                  *)

MaxTextLen == 3

MaxGroups == 4

NumAlphabet == {"0", "1", ",", ".", "-", " ", "e", "_", "x"}

\* Up to n groups of three digits, each behind its ".".
RECURSIVE GroupTails(_)
GroupTails(n) ==
    IF n = 0 THEN {<<>>}
    ELSE LET shorter == GroupTails(n - 1)
         IN  shorter \cup {<<".">> \o g \o t :
                             g \in {<<"0", "0", "0">>, <<"9", "9", "9">>}, t \in shorter}

GroupedNumerals ==
    {h \o t \o <<",">> \o f :
       h \in {<<"1">>, <<"7", "0">>, <<"9", "9", "9">>},
       t \in GroupTails(MaxGroups),
       f \in {<<"0", "0">>, <<"0", "1">>, <<"5", "0">>, <<"9", "9">>}}

\* The examples of the dialogue's prompts, the words float reads, and
\* amounts whose cents lie half way between two floats' roundings.
SampleTexts ==
    {<<"1", "2", "0", "0", "0">>,
     <<"1", "2", ".", "0", "0", "0", ",", "0", "0">>,
     <<"6", ".", "4", "5">>,
     <<"7", ".", "9", "8">>,
     <<"4", "8">>,
     <<"n", "a", "n">>,
     <<"i", "n", "f">>,
     <<"-", "i", "n", "f">>,
     <<"TAB", "5", "TAB">>,
     <<"1", "TAB", "2">>,
     <<"0", ",", "1", "2", "5">>,
     <<"2", ",", "6", "7", "5">>,
     <<"-", "0", ",", "0", "0", "1">>}

NumTexts == TextsUpTo(NumAlphabet, MaxTextLen) \cup GroupedNumerals \cup SampleTexts

InitNum ==
    /\ font \in Fonts
    /\ ClipIdle
    /\ FlowIdle
    /\ DocIdle
    /\ LoanIdle
    /\ TsIdle
    /\ AssetIdle
    /\ SigIdle
    /\ PairIdle
    /\ WizIdle
    /\ nText \in NumTexts
    /\ nVal = NoFloat
    /\ nOut = <<>>
    /\ nPc = "text"

ParseNum ==
    /\ nPc = "text"
    /\ nVal' = parse_num(nText)
    /\ nPc' = "parsed"
    /\ UNCHANGED <<font, wizVars, pairVars, tsVars, assetVars, sigVars, clipVars, flowVars, docVars, loanVars, nText, nOut>>

FmtEur ==
    /\ nPc = "parsed"
    /\ IsFloat(nVal)
    /\ nOut' = fmt_eur(nVal)
    /\ nPc' = "shown"
    /\ UNCHANGED <<font, wizVars, pairVars, tsVars, assetVars, sigVars, clipVars, flowVars, docVars, loanVars, nText, nVal>>

NextNum == ParseNum \/ FmtEur

SpecNum == InitNum /\ [][NextNum]_vars

\* t has a character that is neither a digit, nor the one decimal
\* separator, nor a leading sign.
NonNumeric(t0) ==
    With(t0, LAMBDA t :
        \E i \in DOMAIN t :
           ~ \/ t[i] \in Digits
             \/ t[i] = "." /\ i = IndexOf(t, ".")
             \/ t[i] \in {"+", "-"} /\ i = 1)

\* C7: parse_num raises ValueError, and returns no value, whenever what is
\* left of its input after the white space is stripped, the "." removed and
\* the "," read as the decimal separator still has a character other than
\* digits, one decimal separator and a leading sign.
C7_ResidualRejected ==
    (nPc \in {"parsed", "shown"} /\ NonNumeric(parse_num_t(nText)))
        => nVal = Raise("ValueError")

\* s is d{1,3} ("." ddd)* "," dd, without a leading zero before another digit.
ValidlyGrouped(s0) ==
    With2(s0, IndexOf(s0, ","), LAMBDA s, c :
        /\ c > 1
        /\ Len(s) = c + 2
        /\ s[c + 1] \in Digits /\ s[c + 2] \in Digits
        /\ With2(SubSeq(s, 1, c - 1), (c - 1) % 4, LAMBDA ip, g :
              /\ g \in 1..3
              /\ \A i \in DOMAIN ip :
                    IF i > g /\ (i - g) % 4 = 1 THEN ip[i] = "." ELSE ip[i] \in Digits
              /\ ip[1] = "0" => Len(ip) = 1))

\* C8: for a validly grouped numeral s with two fraction digits,
\* fmt_eur(parse_num(s)) is the currency symbol, a space and s itself.
C8_RoundTrip ==
    (nPc = "shown" /\ ValidlyGrouped(nText)) => nOut = <<"EUR", " ">> \o nText

\* out is the currency symbol, a space and a grouped amount with two
\* fraction digits, a "-" before it when the value is negative.
CurrencyShape(out) ==
    /\ Len(out) > 2
    /\ out[1] = "EUR" /\ out[2] = " "
    /\ ValidlyGrouped(SubSeq(out, IF out[3] = "-" THEN 4 ELSE 3, Len(out)))

\* C9: whatever float fmt_eur is given, what it returns is the currency
\* symbol prefix and the value with exactly two fraction digits behind a
\* "," and the integer part grouped in threes by ".".
C9_AlwaysCurrencyShape == nPc = "shown" => CurrencyShape(nOut)

----------------------------------------------------------------------------
(* Specification SpecLoan: build_pdf derives the figures of the offer from *)
(* the values the dialogue accepted, and prints them.                      *)

MaxMonths == 49

ImportoTexts == {<<"0", ",", "0", "1">>, <<"1">>, <<"1", "2", "0", "0", "0">>}

TanTexts ==
    {<<"0">>,
     <<"0", ",", "0", "0", "0", "0", "0", "0", "0", "0", "0", "0", "0", "0", "1">>,
     <<"6", ",", "4", "5">>,
     <<"4", "0">>}

\* What ask_importo stores: parse_num of the message, unless it raised or
\* importo <= 0.
Importi ==
    {v \in {parse_num(t) : t \in ImportoTexts} : IsFloat(v) /\ ~FLe(v, Zero(0))}

\* What ask_tan stores: parse_num of the message, unless it raised or
\* tan < 0 or tan > 40.
Tans ==
    {v \in {parse_num(t) : t \in TanTexts} :
       IsFloat(v) /\ ~(FLt(v, Zero(0)) \/ FLt(IntToFloat(40), v))}

InitLoan ==
    /\ font \in Fonts
    /\ ClipIdle
    /\ FlowIdle
    /\ DocIdle
    /\ NumIdle
    /\ TsIdle
    /\ AssetIdle
    /\ SigIdle
    /\ PairIdle
    /\ WizIdle
    /\ qImporto \in Importi
    /\ qTan \in Tans
    /\ qDurata \in 1..MaxMonths
    /\ qRata = NoFloat /\ qInteressi = NoFloat /\ qTotale = NoFloat
    /\ qRows = <<>>
    /\ qPc = "values"

\* round(v, 2) by way of the two-decimal text
round2(v) == float(replace(format_2f(v), ",", <<>>))

\* Figures with the interest taken from the payment as displayed, rounded
\* to cents.
FiguresRounded ==
    /\ qPc = "values"
    /\ \E r \in monthly_payment(qImporto, qTan, qDurata) :
         \E i \in {IF IsFloat(r)
                   THEN FSub(FMul(round2(r), IntToFloat(qDurata)), qImporto)
                   ELSE NoFloat} :
            /\ qRata' = r
            /\ qInteressi' = i
            /\ qTotale' = IF IsFloat(r) THEN FAdd(qImporto, i) ELSE NoFloat
            /\ qPc' = IF IsFloat(r) THEN "figures" ELSE "raised"
    /\ UNCHANGED <<font, wizVars, pairVars, tsVars, assetVars, sigVars, clipVars, flowVars, docVars, numVars, qImporto, qTan, qDurata, qRows>>

\* build_pdf: rata, interessi and totale; an exception of monthly_payment
\* ends the build.
Figures ==
    /\ qPc = "values"
    /\ \E r \in monthly_payment(qImporto, qTan, qDurata) :
         \E i \in {IF IsFloat(r) THEN FSub(FMul(r, IntToFloat(qDurata)), qImporto)
                   ELSE NoFloat} :
            /\ qRata' = r
            /\ qInteressi' = i
            /\ qTotale' = IF IsFloat(r) THEN FAdd(qImporto, i) ELSE NoFloat
            /\ qPc' = IF IsFloat(r) THEN "figures" ELSE "raised"
    /\ UNCHANGED <<font, wizVars, pairVars, tsVars, assetVars, sigVars, clipVars, flowVars, docVars, numVars, qImporto, qTan, qDurata, qRows>>

\* str(n) of an int
str_int(n) ==
    IF n = 0 THEN <<"0">>
    ELSE IF n < 0 THEN <<"-">> \o DecimalDigits(BFromInt(-n))
    ELSE DecimalDigits(BFromInt(n))

\* f"{durata} mesi"
Mesi(durata) == str_int(durata) \o <<" ", "m", "e", "s", "i">>

\* build_pdf: the cells of the parameter table (data) and of the economic
\* summary (riepilogo) that show the amounts and the term.
Rows ==
    /\ qPc = "figures"
    /\ qRows' = [data |-> [importo |-> fmt_eur(qImporto),
                           durata |-> Mesi(qDurata),
                           rata |-> fmt_eur(qRata)],
                 riepilogo |-> [importo |-> fmt_eur(qImporto),
                                interessi |-> fmt_eur(qInteressi),
                                totale |-> fmt_eur(qTotale),
                                durata |-> Mesi(qDurata)]]
    /\ qPc' = "rows"
    /\ UNCHANGED <<font, wizVars, pairVars, tsVars, assetVars, sigVars, clipVars, flowVars, docVars, numVars,
                   qImporto, qTan, qDurata, qRata, qInteressi, qTotale>>

NextLoan == Figures \/ Rows

SpecLoan == InitLoan /\ [][NextLoan]_vars

\* C10: for principal > 0, 0 <= rate <= 100 and term > 0 the payment times
\* the term is at least the principal, so that the aggregate interest
\* rata * durata - importo is never negative.
C10_PaymentsCoverPrincipal ==
    (/\ qPc \in {"figures", "rows", "raised"}
     /\ FLt(Zero(0), qImporto)
     /\ FLe(Zero(0), qTan) /\ FLe(qTan, IntToFloat(100))
     /\ qDurata > 0)
        => /\ IsFloat(qRata)
           /\ ~FLt(FMul(qRata, IntToFloat(qDurata)), qImporto)

\* C11: at the annual rate 0 and a term > 0 the payment is principal / term,
\* the one outcome of the call: the amortization formula, its power and its
\* division by 1 - (1 + r) ** (-term), is not evaluated and nothing is
\* raised.
C11_ZeroRateStraightLine ==
    (/\ qPc \in {"figures", "rows", "raised"}
     /\ IsZero(qTan)
     /\ qDurata > 0)
        => /\ qPc # "raised"
           /\ qRata = FDiv(qImporto, IntToFloat(qDurata))
           /\ monthly_payment(qImporto, qTan, qDurata) = {qRata}

C11_Witness ==
    /\ qPc = "figures"
    /\ IsZero(qTan)
    /\ qDurata = 48
    /\ qImporto = IntToFloat(12000)
    /\ qRata = IntToFloat(250)

\* The offer of 12000 at the rate 6,45 over 48 months.
ScenarioA ==
    /\ qImporto = IntToFloat(12000)
    /\ qTan = parse_num(<<"6", ",", "4", "5">>)
    /\ qDurata = 48

\* C12: for principal 12000, annual rate 6.45 and term 48 the offer shows,
\* rounded to two decimals by fmt_eur, the monthly payment 284,30, the
\* interest 1.646,53 and the total 13.646,53, whichever correctly rounded
\* neighbour the power returns.
C12_ScenarioFigures ==
    (qPc = "rows" /\ ScenarioA)
        => /\ qRows.data.importo = <<"EUR", " ", "1", "2", ".", "0", "0", "0", ",", "0", "0">>
           /\ qRows.data.rata = <<"EUR", " ", "2", "8", "4", ",", "3", "0">>
           /\ qRows.riepilogo.interessi = <<"EUR", " ", "1", ".", "6", "4", "6", ",", "5", "3">>
           /\ qRows.riepilogo.totale = <<"EUR", " ", "1", "3", ".", "6", "4", "6", ",", "5", "3">>

C12_Witness ==
    /\ qPc = "rows"
    /\ ScenarioA
    /\ qRows.data.rata[1] = "EUR"

\* C12 as stated: the payment 284,15, the interest 1.639,20 and the total
\* 13.639,20.
C12_ScenarioFiguresAsStated ==
    (qPc = "rows" /\ ScenarioA)
        => /\ qRows.data.rata = <<"EUR", " ", "2", "8", "4", ",", "1", "5">>
           /\ qRows.riepilogo.interessi = <<"EUR", " ", "1", ".", "6", "3", "9", ",", "2", "0">>
           /\ qRows.riepilogo.totale = <<"EUR", " ", "1", "3", ".", "6", "3", "9", ",", "2", "0">>

\* C13: every amount the offer shows comes from the one triple (importo,
\* tan, durata) read at the start of build_pdf: the payment is an outcome of
\* monthly_payment on the triple, the interest is rata * durata - importo
\* and the total importo + interessi on the unrounded floats, and the
\* parameter table and the economic summary print these same values (the
\* credit amount and the term alike in both).
C13_OneComputation ==
    qPc = "rows"
        => /\ qRata \in monthly_payment(qImporto, qTan, qDurata)
           /\ qInteressi = FSub(FMul(qRata, IntToFloat(qDurata)), qImporto)
           /\ qTotale = FAdd(qImporto, qInteressi)
           /\ qRows.data.importo = fmt_eur(qImporto)
           /\ qRows.data.rata = fmt_eur(qRata)
           /\ qRows.data.durata = Mesi(qDurata)
           /\ qRows.riepilogo.importo = qRows.data.importo
           /\ qRows.riepilogo.durata = qRows.data.durata
           /\ qRows.riepilogo.interessi = fmt_eur(qInteressi)
           /\ qRows.riepilogo.totale = fmt_eur(qTotale)

\* The summary of an offer whose displayed payment times the term differs
\* from the displayed total: the figures are not recomputed from the
\* rounded payment.
C13_Witness ==
    /\ qPc = "rows"
    /\ ScenarioA
    /\ qRows.data.durata = <<"4", "8", " ", "m", "e", "s", "i">>
    /\ qRows.riepilogo.interessi # fmt_eur(FSub(FMul(round2(qRata), IntToFloat(qDurata)), qImporto))

----------------------------------------------------------------------------
(* Specification SpecTs: a sequence of calls on one Typesetter, made as    *)
(* sdd_build_pdf makes it.                                                 *)

MaxCalls == 2

MaxSkip == 2

TsTexts == {<<>>, <<"a">>, <<"alpha", "b">>}

\* size=None (0) or an explicit size
TsSizes == {0, 9}

TsCall(op, text, bold, size, value, vbold, n) ==
    [op |-> op, text |-> text, bold |-> bold, size |-> size,
     value |-> value, vbold |-> vbold, n |-> n]

InitTs ==
    /\ font \in Fonts
    /\ ClipIdle
    /\ FlowIdle
    /\ DocIdle
    /\ NumIdle
    /\ LoanIdle
    /\ AssetIdle
    /\ SigIdle
    /\ PairIdle
    /\ WizIdle
    /\ tTs = Typesetter(15 * mm, A4h - 15 * mm, 14 * pt)
    /\ tPrev = <<>>
    /\ tCall = <<>>
    /\ tCount = 0

TsSegment ==
    /\ tCount < MaxCalls
    /\ \E text \in TsTexts, bold \in BOOLEAN, size \in TsSizes :
         /\ tTs' = segment(tTs, text, "text", bold, size)
         /\ tCall' = TsCall("segment", text, bold, size, <<>>, FALSE, 0)
    /\ tPrev' = tTs
    /\ tCount' = tCount + 1
    /\ UNCHANGED <<font, wizVars, pairVars, clipVars, flowVars, docVars, numVars, loanVars, assetVars, sigVars>>

TsLine ==
    /\ tCount < MaxCalls
    /\ \E text \in TsTexts, bold \in BOOLEAN, size \in TsSizes :
         /\ tTs' = line(tTs, text, "text", bold, size)
         /\ tCall' = TsCall("line", text, bold, size, <<>>, FALSE, 0)
    /\ tPrev' = tTs
    /\ tCount' = tCount + 1
    /\ UNCHANGED <<font, wizVars, pairVars, clipVars, flowVars, docVars, numVars, loanVars, assetVars, sigVars>>

TsLabelValue ==
    /\ tCount < MaxCalls
    /\ \E label \in {<<"a">>}, value \in TsTexts, label_bold \in BOOLEAN,
          value_bold \in BOOLEAN :
         /\ tTs' = label_value(tTs, label, value, "value", label_bold, value_bold)
         /\ tCall' = TsCall("label_value", label, label_bold, 0, value, value_bold, 0)
    /\ tPrev' = tTs
    /\ tCount' = tCount + 1
    /\ UNCHANGED <<font, wizVars, pairVars, clipVars, flowVars, docVars, numVars, loanVars, assetVars, sigVars>>

TsNewline ==
    /\ tCount < MaxCalls
    /\ \E n \in 0..MaxSkip :
         /\ tTs' = newline(tTs, n)
         /\ tCall' = TsCall("newline", <<>>, FALSE, 0, <<>>, FALSE, n)
    /\ tPrev' = tTs
    /\ tCount' = tCount + 1
    /\ UNCHANGED <<font, wizVars, pairVars, clipVars, flowVars, docVars, numVars, loanVars, assetVars, sigVars>>

NextTs == TsSegment \/ TsLine \/ TsLabelValue \/ TsNewline

SpecTs == InitTs /\ [][NextTs]_vars

\* The cursor fields a call other than a move leaves alone.
SameSetup == tTs.left = tPrev.left /\ tTs.line_h = tPrev.line_h /\ tTs.size = tPrev.size

\* C14: segment draws the text at the cursor (x, y) it found, with the font
\* of the bold flag and the size given (the Typesetter's own when none),
\* and then moves x right by exactly the width of the text in that font and
\* size; y, left, line_h and size stay as they were.
C14_SegmentAdvancesByWidth ==
    (tCount > 0 /\ tCall.op = "segment")
        => /\ Len(tTs.drawn) = Len(tPrev.drawn) + 1
           /\ SubSeq(tTs.drawn, 1, Len(tPrev.drawn)) = tPrev.drawn
           /\ LET d == tTs.drawn[Len(tTs.drawn)]
              IN  /\ d.x = tPrev.x /\ d.y = tPrev.y /\ d.text = tCall.text
                  /\ d.font = (IF tCall.bold THEN font_b ELSE font_r)
                  /\ d.size = (IF tCall.size = 0 THEN tPrev.size ELSE tCall.size)
                  /\ tTs.x = tPrev.x + stringWidth(d.text, d.font, d.size)
           /\ tTs.y = tPrev.y
           /\ SameSetup

C14_Witness ==
    /\ tCount > 0
    /\ tCall.op = "segment"
    /\ tCall.text = <<"alpha", "b">> /\ tCall.bold /\ tCall.size = 9
    /\ tPrev.x > tPrev.left
    /\ tTs.x > tPrev.x

\* C15: newline(n) puts x on the left margin and lowers y by exactly
\* line_h * n wherever x was; line and label_value end with x on the left
\* margin and y one line_h lower.
C15_NewlineResets ==
    /\ (tCount > 0 /\ tCall.op = "newline")
          => /\ tTs.x = tPrev.left
             /\ tTs.y = tPrev.y - tPrev.line_h * tCall.n
             /\ tTs.drawn = tPrev.drawn
             /\ SameSetup
    /\ (tCount > 0 /\ tCall.op \in {"line", "label_value"})
          => /\ tTs.x = tPrev.left
             /\ tTs.y = tPrev.y - tPrev.line_h
             /\ SameSetup

C15_Witness ==
    /\ tCount > 0
    /\ tCall.op = "newline"
    /\ tCall.n = 2
    /\ tPrev.x > tPrev.left
    /\ tTs.x = tTs.left

\* C16: after every call of a sequence y is not above where the call found
\* it and x is not left of the left margin; newline, line and label_value
\* leave x on the left margin, and a segment never moves x leftwards.
C16_CursorMonotone ==
    /\ tTs.x >= tTs.left
    /\ tCount > 0
          => /\ tTs.y <= tPrev.y
             /\ tCall.op \in {"newline", "line", "label_value"} => tTs.x = tTs.left
             /\ tCall.op = "segment" => tTs.x >= tPrev.x

C16_Witness ==
    /\ tCount = 2
    /\ tCall.op = "line"
    /\ tPrev.x > tPrev.left
    /\ tTs.x = tTs.left
    /\ tTs.y < tPrev.y

----------------------------------------------------------------------------
(* Specification SpecAssets: the looks build_pdf and aml_build_pdf take at *)
(* the image files, one step per look, with files appearing and            *)
(* disappearing between the steps.                                         *)

MaxFsChanges == 1

logo_bda == "banca_dalba_logo.png"
logo_bcc == "bcc_logo.png"
logo_2fin == "2fin_logo.png"
stamp_path == "stampaalba.png"

Logos == <<logo_bda, logo_bcc, logo_2fin>>

Assets == {logo_bda, logo_bcc, logo_2fin, "minettisign.png", "giuseppesign.png", stamp_path}

\* Every path taken for present, as if no file could be missing.
assume_present(fs, p) == TRUE

\* os.path.exists(p) on the disk fs
os_path_exists(fs, p) == p \in fs

\* The answer ans of a look at asset p, noted.
Noted(p, ans) == [aAnswers EXCEPT ![p] = Append(@, ans)]

InitAssets ==
    /\ font \in Fonts
    /\ ClipIdle
    /\ FlowIdle
    /\ DocIdle
    /\ NumIdle
    /\ LoanIdle
    /\ TsIdle
    /\ SigIdle
    /\ PairIdle
    /\ WizIdle
    /\ aFs \in SUBSET Assets
    /\ aDoc \in {"offer", "letter"}
    /\ aPc = IF aDoc = "offer" THEN [at |-> "row", i |-> 1] ELSE [at |-> "logo", i |-> 1]
    /\ aStory = [row |-> <<>>, header |-> "undecided", minetti |-> "none",
                 rossi |-> "none", stamp |-> FALSE, logo |-> "none"]
    /\ aAnswers = [p \in Assets |-> <<>>]
    /\ aChanges = 0

AssetFrame == UNCHANGED <<font, wizVars, pairVars, clipVars, flowVars, docVars, numVars, loanVars, tsVars, sigVars>>

\* A file appears or disappears while a build is under way.
FsChange ==
    /\ aPc.at \notin {"done", "raised"}
    /\ aChanges < MaxFsChanges
    /\ \E p \in Assets : aFs' = IF p \in aFs THEN aFs \ {p} ELSE aFs \cup {p}
    /\ aChanges' = aChanges + 1
    /\ UNCHANGED <<aDoc, aPc, aStory, aAnswers>>
    /\ AssetFrame

\* build_pdf: one turn of the loop that fills logos_row.
LogoCell ==
    /\ aPc.at = "row"
    /\ \E ans \in {os_path_exists(aFs, Logos[aPc.i])} :
         /\ aStory' = [aStory EXCEPT !.row = Append(@, IF ans THEN "image" ELSE "empty")]
         /\ aAnswers' = Noted(Logos[aPc.i], ans)
    /\ aPc' = IF aPc.i < 3 THEN [at |-> "row", i |-> aPc.i + 1] ELSE [at |-> "any", i |-> 1]
    /\ UNCHANGED <<aFs, aDoc, aChanges>>
    /\ AssetFrame

\* build_pdf: one turn of the generator inside any(...), which stops at the
\* first logo found; the header table is appended when one was.
AnyLogo ==
    /\ aPc.at = "any"
    /\ \E ans \in {os_path_exists(aFs, Logos[aPc.i])} :
         /\ aAnswers' = Noted(Logos[aPc.i], ans)
         /\ aStory' = [aStory EXCEPT !.header = IF ans THEN "in"
                                                ELSE IF aPc.i = 3 THEN "out" ELSE @]
         /\ aPc' = IF ans \/ aPc.i = 3 THEN [at |-> "sig", i |-> 1]
                   ELSE [at |-> "any", i |-> aPc.i + 1]
    /\ UNCHANGED <<aFs, aDoc, aChanges>>
    /\ AssetFrame

\* The signature files in the order build_pdf asks for them.
SigPaths == <<"minettisign.png", "giuseppesign.png">>

AfterSig(i) == IF i = 1 THEN [at |-> "sig", i |-> 2] ELSE [at |-> "stamp", i |-> 1]

SigCell(i, cell) ==
    IF i = 1 THEN [aStory EXCEPT !.minetti = cell] ELSE [aStory EXCEPT !.rossi = cell]

\* sig_image: the test of os.path.exists; None makes the cell "".
SigExists ==
    /\ aPc.at = "sig"
    /\ \E ans \in {os_path_exists(aFs, SigPaths[aPc.i])} :
         /\ aAnswers' = Noted(SigPaths[aPc.i], ans)
         /\ aStory' = IF ans THEN aStory ELSE SigCell(aPc.i, "empty")
         /\ aPc' = IF ans THEN [at |-> "sig_read", i |-> aPc.i] ELSE AfterSig(aPc.i)
    /\ UNCHANGED <<aFs, aDoc, aChanges>>
    /\ AssetFrame

\* sig_image: ImageReader(path) opens the file for its size and raises when
\* it is not there.
SigRead ==
    /\ aPc.at = "sig_read"
    /\ \E ans \in {SigPaths[aPc.i] \in aFs} :
         /\ aAnswers' = Noted(SigPaths[aPc.i], ans)
         /\ aStory' = IF ans THEN SigCell(aPc.i, "image") ELSE aStory
         /\ aPc' = IF ans THEN AfterSig(aPc.i) ELSE [at |-> "raised", i |-> 1]
    /\ UNCHANGED <<aFs, aDoc, aChanges>>
    /\ AssetFrame

\* build_pdf: the stamp, appended when its file exists.
Stamp ==
    /\ aPc.at = "stamp"
    /\ \E ans \in {os_path_exists(aFs, stamp_path)} :
         /\ aAnswers' = Noted(stamp_path, ans)
         /\ aStory' = [aStory EXCEPT !.stamp = ans]
    /\ aPc' = [at |-> "build", i |-> 1]
    /\ UNCHANGED <<aFs, aDoc, aChanges>>
    /\ AssetFrame

\* _centered_logo_story: the test of os.path.exists; without the file the
\* letter gets no logo.
LetterLogoExists ==
    /\ aPc.at = "logo"
    /\ \E ans \in {os_path_exists(aFs, logo_bda)} :
         /\ aAnswers' = Noted(logo_bda, ans)
         /\ aStory' = IF ans THEN aStory ELSE [aStory EXCEPT !.logo = "omitted"]
         /\ aPc' = IF ans THEN [at |-> "logo_read", i |-> 1] ELSE [at |-> "build", i |-> 1]
    /\ UNCHANGED <<aFs, aDoc, aChanges>>
    /\ AssetFrame

\* _centered_logo_story: ImageReader(path)
LetterLogoRead ==
    /\ aPc.at = "logo_read"
    /\ \E ans \in {logo_bda \in aFs} :
         /\ aAnswers' = Noted(logo_bda, ans)
         /\ aStory' = IF ans THEN [aStory EXCEPT !.logo = "image"] ELSE aStory
         /\ aPc' = IF ans THEN [at |-> "build", i |-> 1] ELSE [at |-> "raised", i |-> 1]
    /\ UNCHANGED <<aFs, aDoc, aChanges>>
    /\ AssetFrame

\* The files of the Image flowables in the story: an Image opens its file
\* when it is drawn.
StoryImages ==
    (IF aStory.header = "in"
     THEN {Logos[i] : i \in {j \in DOMAIN aStory.row : aStory.row[j] = "image"}}
     ELSE {})
    \cup (IF aStory.minetti = "image" THEN {SigPaths[1]} ELSE {})
    \cup (IF aStory.rossi = "image" THEN {SigPaths[2]} ELSE {})
    \cup (IF aStory.stamp THEN {stamp_path} ELSE {})
    \cup (IF aStory.logo = "image" THEN {logo_bda} ELSE {})

\* doc.build(story): every image of the story is read from its file; a
\* missing file raises.
DocBuild ==
    /\ aPc.at = "build"
    /\ aAnswers' = [p \in Assets |->
                      IF p \in StoryImages THEN Append(aAnswers[p], p \in aFs)
                      ELSE aAnswers[p]]
    /\ aPc' = IF StoryImages \subseteq aFs THEN [at |-> "done", i |-> 1]
              ELSE [at |-> "raised", i |-> 1]
    /\ UNCHANGED <<aFs, aDoc, aStory, aChanges>>
    /\ AssetFrame

NextAssets ==
    \/ FsChange
    \/ LogoCell
    \/ AnyLogo
    \/ SigExists
    \/ SigRead
    \/ Stamp
    \/ LetterLogoExists
    \/ LetterLogoRead
    \/ DocBuild

SpecAssets == InitAssets /\ [][NextAssets]_vars

Slot(present) == IF present THEN "image" ELSE "empty"

\* C17: with any subset of the six image files on disk, unchanged while the
\* build runs, build_pdf and aml_build_pdf run to the end without raising;
\* a missing logo leaves an empty cell in the logo row and a missing
\* signature an empty cell in the signature table, a missing stamp and a
\* missing letter logo are left out of the story.
C17_MissingAssetsTolerated ==
    aChanges = 0
        => /\ aPc.at # "raised"
           /\ (aPc.at = "done" /\ aDoc = "offer")
                => /\ aStory.row = [i \in 1..3 |-> Slot(Logos[i] \in aFs)]
                   /\ aStory.minetti = Slot(SigPaths[1] \in aFs)
                   /\ aStory.rossi = Slot(SigPaths[2] \in aFs)
                   /\ aStory.stamp = (stamp_path \in aFs)
                   /\ StoryImages \subseteq aFs
           /\ (aPc.at = "done" /\ aDoc = "letter")
                => /\ aStory.logo = (IF logo_bda \in aFs THEN "image" ELSE "omitted")
                   /\ StoryImages \subseteq aFs

C17_Witness ==
    /\ aChanges = 0
    /\ aPc.at = "done"
    /\ aDoc = "offer"
    /\ aFs = {logo_bcc, "giuseppesign.png"}
    /\ aStory.row = <<"empty", "image", "empty">>
    /\ aStory.minetti = "empty"
    /\ ~aStory.stamp

\* C18: within one build every look at an asset gets the same answer, so
\* that all decisions about it agree, although files may appear and
\* disappear meanwhile; and the offer's header row is in the story exactly
\* when one of its logo cells holds an image.
C18_OneAnswerPerAsset ==
    /\ \A p \in Assets : \A i, j \in DOMAIN aAnswers[p] : aAnswers[p][i] = aAnswers[p][j]
    /\ aStory.header # "undecided"
         => (aStory.header = "in" <=> \E i \in DOMAIN aStory.row : aStory.row[i] = "image")

----------------------------------------------------------------------------
(* Specification SpecSig: sig_image scales a signature of iw x ih pixels.  *)

MaxPixels == 8

\* inch = 72.0, cm = inch / 2.54, mm = cm * 0.1 of reportlab.lib.units; the
\* literals 2.54 and 0.1 are the floats nearest to 254 / 100 and 1 / 10.
mm_float ==
    With2(FDiv(IntToFloat(254), Hundred), FDiv(One, IntToFloat(10)), LAMBDA c, d :
        With(FDiv(IntToFloat(72), c), LAMBDA cm : FMul(cm, d)))

SIG_TARGET_W == FMul(IntToFloat(72), mm_float)

SIG_MAX_H == FMul(IntToFloat(34), mm_float)

\* sig_image without the cap on the height.
sig_image_uncapped(iw, ih, target_w, max_h) ==
    With(FDiv(IntToFloat(ih), IntToFloat(iw)), LAMBDA ratio :
        [w |-> target_w, h |-> FMul(target_w, ratio)])

\* The width and height sig_image gives the Image of a file of iw x ih
\* pixels.
sig_image(iw, ih, target_w, max_h) ==
    With(FDiv(IntToFloat(ih), IntToFloat(iw)), LAMBDA ratio :
    With(FMul(target_w, ratio), LAMBDA h :
        IF FLt(max_h, h) THEN [w |-> FDiv(max_h, ratio), h |-> max_h]
        ELSE [w |-> target_w, h |-> h]))

PixelSizes == 1..MaxPixels \cup {17, 23, 34, 36, 72, 600}

InitSig ==
    /\ font \in Fonts
    /\ ClipIdle
    /\ FlowIdle
    /\ DocIdle
    /\ NumIdle
    /\ LoanIdle
    /\ TsIdle
    /\ AssetIdle
    /\ PairIdle
    /\ WizIdle
    /\ gIw \in PixelSizes
    /\ gIh \in PixelSizes
    /\ gOut = <<>>
    /\ gPc = "size"

SigImage ==
    /\ gPc = "size"
    /\ gOut' = With2(SIG_TARGET_W, SIG_MAX_H, LAMBDA t, m : sig_image(gIw, gIh, t, m))
    /\ gPc' = "image"
    /\ UNCHANGED <<font, wizVars, pairVars, clipVars, flowVars, docVars, numVars, loanVars, tsVars,
                   assetVars, gIw, gIh>>

NextSig == SigImage

SpecSig == InitSig /\ [][NextSig]_vars

\* The positive float a as the natural a * 2^(-e), for e <= a.e.
Natural(a, e) == BShl(a.m, a.e - e)

\* a * ka <= b * kb in exact arithmetic, a and b positive floats, ka and kb
\* positive ints.
RatLe(a, ka, b, kb) ==
    With(IF a.e < b.e THEN a.e ELSE b.e, LAMBDA e :
    With2(BMul(Natural(a, e), BFromInt(ka)), BMul(Natural(b, e), BFromInt(kb)),
          LAMBDA x, y : BCmp(x, y) <= 0))

\* |h / w - ih / iw| <= 2^-51 * ih / iw in exact arithmetic
RatioKept(h, w, ih, iw) ==
    With(IF h.e < w.e THEN h.e ELSE w.e, LAMBDA e :
    With2(BMul(Natural(h, e), BFromInt(iw)), BMul(Natural(w, e), BFromInt(ih)),
          LAMBDA a, b :
        With(IF BCmp(a, b) >= 0 THEN BSub(a, b) ELSE BSub(b, a), LAMBDA d :
            BCmp(BShl(d, 51), b) <= 0)))

\* C19: for a signature of iw x ih pixels, both positive, sig_image gives a
\* width w <= target_w and a height h <= max_h whose quotient h / w is
\* ih / iw up to the rounding of the float operations (a relative
\* difference of at most 2^-51), and w is target_w whenever
\* target_w * ih / iw does not exceed max_h.
C19_SignatureFits ==
    gPc = "image"
        => With2(SIG_TARGET_W, SIG_MAX_H, LAMBDA t, m :
           /\ IsFinite(gOut.w) /\ IsFinite(gOut.h)
           /\ FLt(Zero(0), gOut.w) /\ FLt(Zero(0), gOut.h)
           /\ FLe(gOut.w, t)
           /\ FLe(gOut.h, m)
           /\ RatioKept(gOut.h, gOut.w, gIh, gIw)
           /\ RatLe(t, gIh, m, gIw) => gOut.w = t)

C19_Witness ==
    /\ gPc = "image"
    /\ gIw = 3 /\ gIh = 2
    /\ gOut.h = SIG_MAX_H
    /\ FLt(gOut.w, SIG_TARGET_W)
    /\ ~FEq(FDiv(gOut.h, gOut.w), FDiv(IntToFloat(gIh), IntToFloat(gIw)))

\* C19 as stated: h / w = ih / iw.
C19_SignatureFitsExactly ==
    gPc = "image"
        => With2(SIG_TARGET_W, SIG_MAX_H, LAMBDA t, m :
           /\ FLe(gOut.w, t)
           /\ FLe(gOut.h, m)
           /\ FEq(FDiv(gOut.h, gOut.w), FDiv(IntToFloat(gIh), IntToFloat(gIw)))
           /\ RatLe(t, gIh, m, gIw) => gOut.w = t)

\* C20: the build of a record with fields of the right types, the numbers
\* within the ranges the dialogue accepts, returns the document and raises
\* nothing.
C20_BuildNeverRaises == qPc # "raised"

----------------------------------------------------------------------------
(* Specification SpecPair: two build calls whose steps interleave, each on *)
(* the objects it constructed itself.                                      *)

Renders == {1, 2}

\* Both calls working on the objects of the first.
shared_objects(r) == 1

\* The objects the call r works on: those its own frame constructed (buf,
\* the canvas and its Typesetter, the story).
own_objects(r) == r

\* What a build call constructs before its first placement: for the
\* mandate the canvas with its Typesetter, for the offer and the letter the
\* empty story.
Constructed ==
    [ts |-> Typesetter(15 * mm, A4h - 15 * mm, 14 * pt), story |-> <<>>]

EmptyMandate ==
    [nome |-> <<>>, indirizzo |-> <<>>, capcitta |-> <<>>, paese |-> <<>>,
     cf |-> <<>>, iban |-> <<>>, bic |-> <<>>]

\* The calls compared, each with the steps it takes in order: the first is
\* a mandate or an offer, ...
FirstInputs ==
    {[kind |-> "mandate", work |-> SddCalls(SddClipped(SddFields(EmptyMandate)), now_rome_date)],
     [kind |-> "offer", work |-> OfferStory(TRUE, FALSE)]}

\* ... the second a mandate of another record, another offer or a letter.
SecondInputs ==
    {[kind |-> "mandate",
      work |-> SddCalls(SddClipped(SddFields([EmptyMandate EXCEPT !.nome = Rep("a", LongLen),
                                                                  !.cf = <<"a", "a">>])),
                        now_rome_date)],
     [kind |-> "offer", work |-> OfferStory(FALSE, TRUE)],
     [kind |-> "letter", work |-> LetterStory(FALSE)]}

\* One step of a call on its objects: a Typesetter call of the mandate, a
\* story.append of the offer or the letter.
PairApply(obj, kind, w) ==
    IF kind = "mandate" THEN [obj EXCEPT !.ts = Exec(@, w)]
    ELSE [obj EXCEPT !.story = Append(@, w)]

InitPair ==
    /\ font \in Fonts
    /\ ClipIdle
    /\ FlowIdle
    /\ DocIdle
    /\ NumIdle
    /\ LoanIdle
    /\ TsIdle
    /\ AssetIdle
    /\ SigIdle
    /\ WizIdle
    /\ pObj = [o \in Renders |-> <<>>]
    /\ \E a \in FirstInputs, b \in SecondInputs :
         pRun = [r \in Renders |->
                   [kind |-> IF r = 1 THEN a.kind ELSE b.kind,
                    work |-> IF r = 1 THEN a.work ELSE b.work,
                    idx |-> 0, overlap |-> FALSE, done |-> FALSE, doc |-> <<>>]]

PairFrame ==
    UNCHANGED <<font, wizVars, clipVars, flowVars, docVars, numVars, loanVars, tsVars, assetVars,
                sigVars>>

\* The call begins: buf, canvas and Typesetter, or the story, are made.
PairBegin ==
    /\ \E r \in Renders :
         /\ pRun[r].idx = 0
         /\ pObj' = [pObj EXCEPT ![own_objects(r)] = Constructed]
         /\ pRun' = [pRun EXCEPT ![r].idx = 1,
                                 ![r].overlap = \E q \in Renders \ {r} :
                                                   pRun[q].idx > 0 /\ ~pRun[q].done]
    /\ PairFrame

\* The next Typesetter call or story.append of one of the two.
PairStep ==
    /\ \E r \in Renders :
         /\ pRun[r].idx \in 1..Len(pRun[r].work)
         /\ pObj' = [pObj EXCEPT ![own_objects(r)] =
                       PairApply(@, pRun[r].kind, pRun[r].work[pRun[r].idx])]
         /\ pRun' = [pRun EXCEPT ![r].idx = @ + 1]
    /\ PairFrame

\* The call returns the document its objects hold.
PairReturn ==
    /\ \E r \in Renders :
         /\ pRun[r].idx = Len(pRun[r].work) + 1
         /\ ~pRun[r].done
         /\ pRun' = [pRun EXCEPT ![r].done = TRUE, ![r].doc = pObj[own_objects(r)]]
    /\ UNCHANGED pObj
    /\ PairFrame

NextPair == PairBegin \/ PairStep \/ PairReturn

SpecPair == InitPair /\ [][NextPair]_vars

\* The document of a call that runs with no other call beside it.
Alone(kind, work) ==
    IF kind = "mandate"
    THEN [Constructed EXCEPT !.ts = Run(@, work, 1, Len(work))]
    ELSE [Constructed EXCEPT !.story = work]

\* What the last step of the call r put on its objects is still there: the
\* story is as long as the appends made and ends with the block appended
\* last, the canvas ends with the text drawn last.
OwnStepsKept(r) ==
    LET n == pRun[r].idx - 1
        obj == pObj[own_objects(r)]
    IN  IF pRun[r].kind = "mandate"
        THEN n >= 1 =>
               /\ obj.ts.drawn # <<>>
               /\ obj.ts.drawn[Len(obj.ts.drawn)].text =
                     (IF pRun[r].work[n].op = "label_value" THEN pRun[r].work[n].value
                      ELSE pRun[r].work[n].text)
        ELSE obj.story = SubSeq(pRun[r].work, 1, n)

\* C21: of two build calls whose steps interleave in any order, each
\* returns the document it returns when it runs alone, and while it runs
\* its objects hold what its own steps put there: neither the cursor nor
\* the canvas nor the story of one is touched by the other.
C21_RendersIndependent ==
    \A r \in DOMAIN pRun :
        /\ pRun[r].done => pRun[r].doc = Alone(pRun[r].kind, pRun[r].work)
        /\ (pRun[r].idx > 0 /\ ~pRun[r].done) => OwnStepsKept(r)

C21_Witness ==
    /\ pRun[1].done /\ pRun[2].done
    /\ pRun[1].overlap
    /\ pRun[1].kind = "mandate" /\ pRun[2].kind = "mandate"
    /\ pRun[1].work # pRun[2].work
    /\ pRun[1].doc # pRun[2].doc

----------------------------------------------------------------------------
(* The wizards of bot1.py: three ConversationHandlers over one user_data.  *)
(* An update is a text message of the user in one chat.  The handlers of   *)
(* main are asked in the order they were added and the first that accepts  *)
(* the update handles it: a ConversationHandler accepts its own button     *)
(* (allow_reentry) and, while its conversation of that chat is in a state, *)
(* any text.  The conversation is kept per chat and user, user_data per    *)
(* user.                                                                   *)

MaxUpdates == 8

MaxEntries == 2

Chats == {"private", "group"}

\* main: add_handler(conv_contract), add_handler(conv_sdd), add_handler(conv_aml)
Wizards == <<"contract", "mandate", "letter">>

END == "END"

ContractKeys == {"cliente", "importo", "tan", "taeg", "durata"}

SddKeys == {"nome", "indirizzo", "capcitta", "paese", "cf", "iban", "bic"}

AmlKeys == {"aml_nome", "aml_cf", "aml_iban"}

WizardKeys(w) ==
    IF w = "contract" THEN ContractKeys ELSE IF w = "mandate" THEN SddKeys ELSE AmlKeys

\* The state handle_menu returns for the button of each wizard.
FirstState(w) ==
    IF w = "contract" THEN "ASK_CLIENTE"
    ELSE IF w = "mandate" THEN "SDD_ASK_NOME" ELSE "AML_ASK_NAME"

\* d[k] = v of a dict.
Put(d, k, v) == [x \in DOMAIN d \cup {k} |-> IF x = k THEN v ELSE d[x]]

\* d.get(k, "")
Get(d, k) == IF k \in DOMAIN d THEN d[k] ELSE <<>>

\* The natural a bignum stands for.
RECURSIVE BToInt(_)
BToInt(a) == IF a = <<>> THEN 0 ELSE a[1] + Base * BToInt(Tail(a))

\* int(x) of a float: the value cut towards zero, ValueError for nan,
\* OverflowError for an infinity; the result keeps the shape of a float
\* record with e = 0 and k = "int".
int(v) ==
    IF ~IsFloat(v) THEN v
    ELSE IF v.k = "nan" THEN Raise("ValueError")
    ELSE IF v.k = "inf" THEN Raise("OverflowError")
    ELSE [k |-> "int", s |-> v.s, e |-> 0,
          m |-> IF v.e >= 0 THEN BShl(v.m, v.e) ELSE BShr(v.m, 0 - v.e)]

\* The replies the user gives at each step.
ClienteReplies == {<<"M">>, <<"M", "R">>}

ImportoReplies == {<<"1", "2", "0", "0", "0">>, <<"n", "a", "n">>, <<"0">>}

TanReplies == {<<"6", ".", "4", "5">>, <<"6", ",", "4", "5">>, <<"n", "a", "n">>}

TaegReplies == {<<"7", ".", "9", "8">>, <<"7", ",", "9", "8">>}

DurataReplies == {<<"4", "8">>, <<"1", "8", "1">>, <<"n", "a", "n">>}

NomeReplies == {<<" ">>, <<"R">>}

LineReplies == {<<"v">>}

IbanReplies == {<<"I", " ", "T">>}

BicReplies == {<<"-">>}

\* Before the first update: nothing handled, nothing sent.
NoUpdate ==
    [handler |-> "none", chat |-> "none", text |-> <<>>, outcome |-> "none",
     from |-> END, to |-> END, before |-> [k \in {} |-> <<>>]]

NoDocument == [wizard |-> "none", values |-> <<>>, since |-> {}]

InitWizard ==
    /\ font \in Fonts
    /\ ClipIdle
    /\ FlowIdle
    /\ DocIdle
    /\ NumIdle
    /\ LoanIdle
    /\ TsIdle
    /\ AssetIdle
    /\ SigIdle
    /\ PairIdle
    /\ wConv = [c \in Chats |-> [w \in {"contract", "mandate", "letter"} |-> END]]
    /\ wData = [k \in {} |-> <<>>]
    /\ wSince = {}
    /\ wLast = NoUpdate
    /\ wDoc = NoDocument
    /\ wCount = 0 /\ wEntries = 0

WizFrame ==
    UNCHANGED <<font, pairVars, clipVars, flowVars, docVars, numVars, loanVars, tsVars,
                assetVars, sigVars>>

\* The update reaches the ConversationHandler w: no handler added before it
\* has a conversation of this chat in a state, which would take the text.
Reaches(chat, w) ==
    \A i \in DOMAIN Wizards :
        (\E j \in DOMAIN Wizards : j > i /\ Wizards[j] = w) => wConv[chat][Wizards[i]] = END

\* What an update leaves behind: the conversation of the chat in the state
\* the handler returned, user_data as the handler left it, the document it
\* sent.
Handled(chat, w, handler, text, outcome, data, written, to, doc) ==
    /\ wCount < MaxUpdates
    /\ wCount' = wCount + 1
    /\ wConv' = [wConv EXCEPT ![chat][w] = to]
    /\ wData' = data
    /\ wSince' = wSince \cup written
    /\ wLast' = [handler |-> handler, chat |-> chat, text |-> text, outcome |-> outcome,
                 from |-> wConv[chat][w], to |-> to, before |-> wData]
    /\ wDoc' = doc
    /\ UNCHANGED wEntries
    /\ WizFrame

\* The document a build call makes, with the keys of its wizard that were
\* written since the wizard was last entered.
Document(w, values, written) ==
    [wizard |-> w, values |-> values, since |-> (wSince \cup written) \cap WizardKeys(w)]

\* handle_menu, the entry point of each ConversationHandler: the button of
\* the wizard w, also in the middle of its conversation.
handle_menu ==
    \E chat \in Chats, i \in DOMAIN Wizards :
      LET w == Wizards[i] IN
        /\ Reaches(chat, w)
        /\ wCount < MaxUpdates /\ wEntries < MaxEntries
        /\ wCount' = wCount + 1 /\ wEntries' = wEntries + 1
        /\ wConv' = [wConv EXCEPT ![chat][w] = FirstState(w)]
        /\ wSince' = wSince \ WizardKeys(w)
        /\ wLast' = [handler |-> "handle_menu", chat |-> chat, text |-> <<w>>,
                     outcome |-> "accepted", from |-> wConv[chat][w],
                     to |-> FirstState(w), before |-> wData]
        /\ wDoc' = NoDocument
        /\ UNCHANGED wData
        /\ WizFrame

\* A step of the contract wizard that keeps a number: v is what parse_num
\* returned, raised tells whether the try block raised.
NumberStep(w, state, handler, chat, text, key, v, raised, next) ==
    IF raised
    THEN Handled(chat, w, handler, text, "rejected", wData, {}, state, NoDocument)
    ELSE Handled(chat, w, handler, text, "accepted", Put(wData, key, v), {key}, next,
                 NoDocument)

ask_cliente ==
    \E chat \in Chats, text \in ClienteReplies :
        /\ Reaches(chat, "contract")
        /\ wConv[chat]["contract"] = "ASK_CLIENTE"
        /\ LET name == strip(text)
           IN  IF Len(name) < 2
               THEN Handled(chat, "contract", "ask_cliente", text, "rejected", wData, {},
                            "ASK_CLIENTE", NoDocument)
               ELSE Handled(chat, "contract", "ask_cliente", text, "accepted",
                            Put(wData, "cliente", name), {"cliente"}, "ASK_IMPORTO",
                            NoDocument)

ask_importo ==
    \E chat \in Chats, text \in ImportoReplies :
        /\ Reaches(chat, "contract")
        /\ wConv[chat]["contract"] = "ASK_IMPORTO"
        /\ \E importo \in {parse_num(text)} :
              NumberStep("contract", "ASK_IMPORTO", "ask_importo", chat, text, "importo",
                         importo, ~IsFloat(importo) \/ FLe(importo, Zero(0)), "ASK_TAN")

ask_tan ==
    \E chat \in Chats, text \in TanReplies :
        /\ Reaches(chat, "contract")
        /\ wConv[chat]["contract"] = "ASK_TAN"
        /\ \E tan \in {parse_num(text)} :
              NumberStep("contract", "ASK_TAN", "ask_tan", chat, text, "tan", tan,
                         ~IsFloat(tan) \/ FLt(tan, Zero(0)) \/ FLt(IntToFloat(40), tan),
                         "ASK_TAEG")

ask_taeg ==
    \E chat \in Chats, text \in TaegReplies :
        /\ Reaches(chat, "contract")
        /\ wConv[chat]["contract"] = "ASK_TAEG"
        /\ \E taeg \in {parse_num(text)} :
              NumberStep("contract", "ASK_TAEG", "ask_taeg", chat, text, "taeg", taeg,
                         ~IsFloat(taeg) \/ FLt(taeg, Zero(0)) \/ FLt(IntToFloat(50), taeg),
                         "ASK_DURATA")

\* ask_durata: the term is stored and build_pdf is called on the five values;
\* an exception of build_pdf leaves the handler before it returns a state.
ask_durata ==
    \E chat \in Chats, text \in DurataReplies :
        /\ Reaches(chat, "contract")
        /\ wConv[chat]["contract"] = "ASK_DURATA"
        /\ (\E d \in {int(parse_num(text))} :
             IF d.k # "int" \/ d.s = 1 \/ d.m = <<>> \/ BCmp(d.m, BFromInt(180)) > 0
             THEN Handled(chat, "contract", "ask_durata", text, "rejected", wData, {},
                          "ASK_DURATA", NoDocument)
             ELSE (\E data \in {Put(wData, "durata", BToInt(d.m))} :
                  LET values == [k \in ContractKeys |->
                                   IF k = "cliente" THEN Get(data, k) ELSE data[k]]
                  IN  \E rata \in monthly_payment(values.importo, values.tan, values.durata) :
                        IF IsFloat(rata)
                        THEN Handled(chat, "contract", "ask_durata", text, "accepted", data,
                                     {"durata"}, END,
                                     Document("contract", values, {"durata"}))
                        ELSE Handled(chat, "contract", "ask_durata", text, "raised", data,
                                     {"durata"}, "ASK_DURATA", NoDocument)))

\* A text step that stores the stripped reply and then tests it:
\* sdd_ask_nome ... sdd_ask_cf, aml_ask_name.
StoreThenTest(w, state, handler, chat, text, key, next) ==
    (\E data \in {Put(wData, key, strip(text))} :
         IF data[key] = <<>>
         THEN Handled(chat, w, handler, text, "rejected", data, {key}, state,
                      NoDocument)
         ELSE Handled(chat, w, handler, text, "accepted", data, {key}, next,
                      NoDocument))

sdd_ask_nome ==
    \E chat \in Chats, text \in NomeReplies :
        /\ Reaches(chat, "mandate")
        /\ wConv[chat]["mandate"] = "SDD_ASK_NOME"
        /\ StoreThenTest("mandate", "SDD_ASK_NOME", "sdd_ask_nome", chat, text, "nome",
                         "SDD_ASK_INDIRIZZO")

sdd_ask_indirizzo ==
    \E chat \in Chats, text \in LineReplies :
        /\ Reaches(chat, "mandate")
        /\ wConv[chat]["mandate"] = "SDD_ASK_INDIRIZZO"
        /\ StoreThenTest("mandate", "SDD_ASK_INDIRIZZO", "sdd_ask_indirizzo", chat, text,
                         "indirizzo", "SDD_ASK_CAPCITTA")

sdd_ask_capcitta ==
    \E chat \in Chats, text \in LineReplies :
        /\ Reaches(chat, "mandate")
        /\ wConv[chat]["mandate"] = "SDD_ASK_CAPCITTA"
        /\ StoreThenTest("mandate", "SDD_ASK_CAPCITTA", "sdd_ask_capcitta", chat, text,
                         "capcitta", "SDD_ASK_PAESE")

sdd_ask_paese ==
    \E chat \in Chats, text \in LineReplies :
        /\ Reaches(chat, "mandate")
        /\ wConv[chat]["mandate"] = "SDD_ASK_PAESE"
        /\ StoreThenTest("mandate", "SDD_ASK_PAESE", "sdd_ask_paese", chat, text, "paese",
                         "SDD_ASK_CF")

sdd_ask_cf ==
    \E chat \in Chats, text \in LineReplies :
        /\ Reaches(chat, "mandate")
        /\ wConv[chat]["mandate"] = "SDD_ASK_CF"
        /\ StoreThenTest("mandate", "SDD_ASK_CF", "sdd_ask_cf", chat, text, "cf",
                         "SDD_ASK_IBAN")

\* A step that tests the reply without its blanks and stores it when it is
\* not empty: sdd_ask_iban, and aml_ask_iban, which then builds the letter.
TestThenStore(w, state, handler, chat, text, key, next, builds) ==
    (\E iban \in {replace(text, " ", <<>>)} :
         IF iban = <<>>
         THEN Handled(chat, w, handler, text, "rejected", wData, {}, state,
                      NoDocument)
         ELSE (\E data \in {Put(wData, key, iban)} :
              Handled(chat, w, handler, text, "accepted", data, {key}, next,
                      IF builds
                      THEN Document(w, [k \in WizardKeys(w) |-> Get(data, k)], {key})
                      ELSE NoDocument)))

sdd_ask_iban ==
    \E chat \in Chats, text \in IbanReplies \cup {<<" ">>} :
        /\ Reaches(chat, "mandate")
        /\ wConv[chat]["mandate"] = "SDD_ASK_IBAN"
        /\ TestThenStore("mandate", "SDD_ASK_IBAN", "sdd_ask_iban", chat, text, "iban",
                         "SDD_ASK_BIC", FALSE)

\* A last or optional field: "-" stands for none, nothing is rejected;
\* sdd_ask_bic then builds the mandate from user_data.
DashStep(w, state, handler, chat, text, key, next, builds) ==
    LET given == strip(text)
       IN  (\E data \in {Put(wData, key, IF given = <<"-">> THEN <<>> ELSE given)} :
           Handled(chat, w, handler, text, "accepted", data, {key}, next,
                   IF builds
                   THEN Document(w, [k \in WizardKeys(w) |-> Get(data, k)], {key})
                   ELSE NoDocument))

sdd_ask_bic ==
    \E chat \in Chats, text \in BicReplies :
        /\ Reaches(chat, "mandate")
        /\ wConv[chat]["mandate"] = "SDD_ASK_BIC"
        /\ DashStep("mandate", "SDD_ASK_BIC", "sdd_ask_bic", chat, text, "bic", END, TRUE)

aml_ask_name ==
    \E chat \in Chats, text \in NomeReplies :
        /\ Reaches(chat, "letter")
        /\ wConv[chat]["letter"] = "AML_ASK_NAME"
        /\ StoreThenTest("letter", "AML_ASK_NAME", "aml_ask_name", chat, text, "aml_nome",
                         "AML_ASK_CF")

aml_ask_cf ==
    \E chat \in Chats, text \in BicReplies :
        /\ Reaches(chat, "letter")
        /\ wConv[chat]["letter"] = "AML_ASK_CF"
        /\ DashStep("letter", "AML_ASK_CF", "aml_ask_cf", chat, text, "aml_cf",
                    "AML_ASK_IBAN", FALSE)

aml_ask_iban ==
    \E chat \in Chats, text \in IbanReplies :
        /\ Reaches(chat, "letter")
        /\ wConv[chat]["letter"] = "AML_ASK_IBAN"
        /\ TestThenStore("letter", "AML_ASK_IBAN", "aml_ask_iban", chat, text, "aml_iban",
                         END, TRUE)

NextWizard ==
    \/ handle_menu
    \/ ask_cliente \/ ask_importo \/ ask_tan \/ ask_taeg \/ ask_durata
    \/ sdd_ask_nome \/ sdd_ask_indirizzo \/ sdd_ask_capcitta \/ sdd_ask_paese
    \/ sdd_ask_cf \/ sdd_ask_iban \/ sdd_ask_bic
    \/ aml_ask_name \/ aml_ask_cf \/ aml_ask_iban

SpecWizard == InitWizard /\ [][NextWizard]_vars

\* A value of the record is a number: a float that is not nan.
IsNumber(v) == IsFloat(v) /\ v.k # "nan"

\* C22: whenever the contract wizard calls build_pdf, the values it passes
\* are numbers within the validated ranges: importo > 0, 0 <= tan <= 40,
\* 0 <= taeg <= 50 and durata an integer of 1..180.
C22_BuildValuesInRange ==
    wDoc.wizard = "contract" =>
        /\ IsNumber(wDoc.values.importo) /\ FLt(Zero(0), wDoc.values.importo)
        /\ IsNumber(wDoc.values.tan)
        /\ FLe(Zero(0), wDoc.values.tan) /\ FLe(wDoc.values.tan, IntToFloat(40))
        /\ IsNumber(wDoc.values.taeg)
        /\ FLe(Zero(0), wDoc.values.taeg) /\ FLe(wDoc.values.taeg, IntToFloat(50))
        /\ wDoc.values.durata \in 1..180

\* C23: in every wizard a step that rejects its input returns the state it
\* was in and leaves user_data exactly as it found it.
C23_RejectionKeepsData ==
    wLast.outcome = "rejected" => wLast.to = wLast.from /\ wData = wLast.before

\* C24: the examples of the wizard's own prompts are accepted: "6.45" at
\* the TAN step is stored as 6.45 and leads to the TAEG step, "7.98" at the
\* TAEG step is stored as 7.98 and leads to the term step.
C24_PromptExamplesAccepted ==
    /\ (wLast.handler = "ask_tan" /\ wLast.text = <<"6", ".", "4", "5">>)
         => /\ wLast.outcome = "accepted" /\ wLast.to = "ASK_TAEG"
            /\ wData["tan"] = float(<<"6", ".", "4", "5">>)
    /\ (wLast.handler = "ask_taeg" /\ wLast.text = <<"7", ".", "9", "8">>)
         => /\ wLast.outcome = "accepted" /\ wLast.to = "ASK_DURATA"
            /\ wData["taeg"] = float(<<"7", ".", "9", "8">>)

\* C25: whatever the updates, a wizard re-entered by its button in the
\* middle of a conversation included, a document sent is built only from
\* values written since that wizard was last entered.
C25_DocumentFromThisEntry ==
    wDoc.wizard # "none" => WizardKeys(wDoc.wizard) \subseteq wDoc.since

----------------------------------------------------------------------------
(* The layout of the mandate: SpecRender, after sdd_build_pdf.             *)

\* The three identifiers are no longer than their placeholders.
IdentifiersShort ==
    /\ Len(dFields.cf) <= 16
    /\ Len(dFields.iban) <= 34
    /\ Len(dFields.bic) <= 11

\* The cursor x after the i-th drawString of the mandate: segment adds the
\* width of the text at the font and size it was drawn in.
XAfter(i) ==
    dTs.drawn[i].x + stringWidth(dTs.drawn[i].text, dTs.drawn[i].font, dTs.drawn[i].size)

\* C26: in the mandate, set in a monospaced font, of a record whose fiscal
\* identifier, IBAN and BIC are no longer than their placeholders, the
\* cursor x after every segment placed is at most the right boundary, the
\* page width less 15 mm: no fixed text and no clipped field runs past it.
C26_NoLinePastRightMargin ==
    (fDoc = "mandate" /\ fPc = "done" /\ IdentifiersShort) =>
        \A i \in DOMAIN dTs.drawn : XAfter(i) <= RightEdge

\* The line advances made on ts since its construction at the top margin.
LineAdvances(ts) == (A4h - 15 * mm - ts.y) \div ts.line_h

\* The calls of the mandate that end a line: line and label_value.
LineEnds(calls) == Cardinality({i \in DOMAIN calls : calls[i].op # "segment"})

\* C27: whatever the field values of the record, sdd_build_pdf advances
\* the line as often as for the record with every field empty, once for
\* each line or label_value call, ends exactly one page, and places every
\* text with the cursor y at or above the bottom margin of 15 mm.
C27_FixedLinesOnePage ==
    (fDoc = "mandate" /\ fPc = "done") =>
        /\ LineAdvances(dTs)
              = LineEnds(SddCalls(SddClipped(SddFields(EmptyMandate)), now_rome_date))
        /\ dTs.y = A4h - 15 * mm - LineAdvances(dTs) * dTs.line_h
        /\ dTs.pages = 1
        /\ \A i \in DOMAIN dTs.drawn : dTs.drawn[i].y >= 15 * mm

C27_Witness ==
    /\ fDoc = "mandate" /\ fPc = "done"
    /\ Len(dValues.indirizzo) = LongLen /\ Len(dValues.cf) = LongLen
    /\ dValues.iban = <<>>
    /\ dTs.pages = 1
    /\ \E i \in DOMAIN dTs.drawn :
          /\ dTs.drawn[i].y = dTs.y + dTs.line_h
          /\ dTs.drawn[i].y >= 15 * mm

====
